---- MODULE Spec2Model ----
(***************************************************************************)
(* Model of the data access layer of ftp-user-svc (data/data.go), of the   *)
(* two tables of its schema (schema_postgres.ddl, schema_mysql.ddl) and of *)
(* the POST /mappings/{system} handler (handlers/ftpusers.go).             *)
(*                                                                         *)
(* Every SQL statement is one atomic step (autocommit, no transactions);   *)
(* an operation that issues two statements is two steps, so that the       *)
(* statements of concurrent callers interleave.                            *)
(*                                                                         *)
(* The store reports a constraint violation with the text the data layer   *)
(* looks for (data.go getPrimaryKeyErr/getForeignKeyErr, as the tests in   *)
(* data_test.go do); every other failure carries neither fragment.         *)
(***************************************************************************)
EXTENDS Integers, Sequences, FiniteSets, TLC

VARIABLES
    ftp_account,   \* table ftp_account: set of rows [id, username, description, password]
    ftp_mapping,   \* table ftp_mapping: set of rows [system, id, ftp_id]
    nextId,        \* next value of the serial / auto_increment column ftp_account.id
    dbDriverName,  \* data.go package variable dbDriverName
    handle,        \* Database.DB: "live" (server reachable) or "dead" (ping fails)
    call,          \* per caller: the operation in progress between two statements
    last,          \* the call that returned in the last step (op = "none" otherwise)
    sel,           \* the page arithmetic of one FtpUserGetSelection call
    conn,          \* NewDB, attemptConnection and checkDBConnection: the handle and its history
    fq,            \* one fmtQueryForDriver call: the query and the result
    gs,            \* one FtpUserGetSelection call: its arguments and the FtpUsers it returns
    metrics        \* metrics.go loginLabels and countLoginTotals, and the logins in progress

vars == <<ftp_account, ftp_mapping, nextId, dbDriverName, handle, call, last, sel, conn, fq, gs,
          metrics>>

\* the state of the connection, formatting and selection machines
aux == <<conn, fq, gs, metrics>>

----------------------------------------------------------------------------
\* Bounds of the model
MaxId == 2

\* two concurrent callers of the data layer
Callers == {"c1", "c2"}
Usernames == {"Test", "Test2"}
Systems == {"BillSys1"}
SystemIDs == {"123"}
FtpIds == 1..MaxId
\* the accounts callers ask to create, and the changes they ask for
NewUsers == {[ID |-> 0, Username |-> "Test", Description |-> "A test user", Password |-> "pass"],
             [ID |-> 0, Username |-> "Test2", Description |-> "Another", Password |-> "pass2"]}
UserUpdates == [Username : Usernames, Description : {"Another"}]
\* the password callers ask to set
NewPasswords == {"pass2"}

----------------------------------------------------------------------------
\* data.go constants
MySQLDriverName == "mysql"
PostgreSQLDriverName == "postgres"

MappingError == 0
MappingFTPAccountNotFound == 1
MappingInserted == 2
MappingUpdated == 3

NilErr == "nil"
ErrUserNotFound == "No matching user found"
ErrMappingNotFound == "No matching mapping found"
ErrFTPAccountNotFound == "No matching FTP Account found"
ErrFTPAccountExists == "An FTP Account for the specified username already exists"

\* net/http status codes written by the handlers
StatusOK == 200
StatusCreated == 201
StatusNoContent == 204
StatusBadRequest == 400
StatusUnauthorized == 401
StatusNotFound == 404
StatusConflict == 409
StatusInternalServerError == 500

----------------------------------------------------------------------------
\* The connection, formatting and selection machines at rest

\* no NewDB call yet: no Database, no handle
NoConn == [pc |-> "none", op |-> "", attempt |-> 0, err |-> NilErr, db |-> "none",
           pooled |-> FALSE, log |-> <<>>, slept |-> 0, ret |-> "", calls |-> 0,
           source |-> <<>>, opened |-> ""]
NoFq == [pc |-> "none", query |-> <<>>, result |-> <<>>]
NoGs == [pc |-> "none"]

----------------------------------------------------------------------------
\* Driver error texts.  A constraint violation carries the text the data layer
\* searches for in the active dialect; the other two carry neither fragment.
MySQLDuplicate == "Error Code: 1062"
MySQLNoParent == "Error Code: 1452"
PgDuplicate == "duplicate key value violates unique constraint"
PgNoParent == "violates foreign key constraint"
BadConnection == "driver: bad connection"
ScanNull == "sql: Scan error: converting NULL to int is unsupported"

\* strings.Contains(text, fragment) over the error texts above
Contains(text, fragment) == fragment = "" \/ text = fragment

getPrimaryKeyErr ==
    IF dbDriverName = PostgreSQLDriverName THEN PgDuplicate
    ELSE IF dbDriverName = MySQLDriverName THEN MySQLDuplicate
    ELSE ""

\* faulty variant: the fragment searched for is empty, so every error matches
checkPrimaryKeyErrEmptyFragment(err) == Contains(err, "")

checkPrimaryKeyErr(err) == Contains(err, getPrimaryKeyErr)

getForeignKeyErr ==
    IF dbDriverName = PostgreSQLDriverName THEN PgNoParent
    ELSE IF dbDriverName = MySQLDriverName THEN MySQLNoParent
    ELSE ""

\* faulty variant: the foreign-key check searches for the primary-key fragment
checkForeignKeyErrWrongFragment(err) == Contains(err, getPrimaryKeyErr)

checkForeignKeyErr(err) == Contains(err, getForeignKeyErr)

\* What the store of the active dialect answers on a violated constraint
UniqueViolation == IF dbDriverName = PostgreSQLDriverName THEN PgDuplicate ELSE MySQLDuplicate
ForeignKeyViolation == IF dbDriverName = PostgreSQLDriverName THEN PgNoParent ELSE MySQLNoParent

----------------------------------------------------------------------------
\* The schema: constraints of the two tables

AccountIds == {a.id : a \in ftp_account}
AccountById(id) == {a \in ftp_account : a.id = id}
AccountByName(username) == {a \in ftp_account : a.username = username}
MappingByKey(system, id) == {m \in ftp_mapping : m.system = system /\ m.id = id}
\* the keys mapped to account id
KeysOf(id) == {<<m.system, m.id>> : m \in {x \in ftp_mapping : x.ftp_id = id}}

\* faulty variant: ftp_mapping without its primary key
NoPrimaryKey(system, id) == TRUE

\* primary key ("system", "id") of ftp_mapping
PrimaryKeyFree(system, id) == MappingByKey(system, id) = {}

\* constraint fk_ftp_account: ftp_id references ftp_account ("id")
ForeignKeyHolds(ftp) == ftp \in AccountIds

\* faulty variant: the foreign key without "on delete cascade"
NoCascade(id) == ftp_mapping

\* constraint fk_ftp_account ... on delete cascade: the mappings that survive
\* the deletion of account id
CascadeDelete(id) == {m \in ftp_mapping : m.ftp_id # id}

\* faulty variant: ftp_account without the unique constraint on username
NoUniqueUsername(username, id) == TRUE

\* constraint uc_username unique (username), checked for the row with the given id
UsernameFree(username, id) == \A a \in ftp_account : a.username = username => a.id = id

----------------------------------------------------------------------------
\* One statement against the store through handle h.  Each operator gives the
\* driver's error text, the affected row count and the table after the statement.

\* insert into ftp_mapping (system, id, ftp_id) values (?, ?, ?)
ExecInsertMapping(h, system, id, ftp) ==
    IF h # "live" THEN [err |-> BadConnection, rows |-> 0, mapping |-> ftp_mapping]
    ELSE IF ~PrimaryKeyFree(system, id)
         THEN [err |-> UniqueViolation, rows |-> 0, mapping |-> ftp_mapping]
    ELSE IF ~ForeignKeyHolds(ftp)
         THEN [err |-> ForeignKeyViolation, rows |-> 0, mapping |-> ftp_mapping]
    ELSE [err |-> NilErr, rows |-> 1,
          mapping |-> ftp_mapping \cup {[system |-> system, id |-> id, ftp_id |-> ftp]}]

\* faulty variant: the arguments of the UPDATE in the order of the INSERT, so that
\* the where clause compares the key columns with other values
ExecUpdateMappingArgOrder(h, system, id, ftp) ==
    IF h # "live" THEN [err |-> BadConnection, rows |-> 0, mapping |-> ftp_mapping]
    ELSE [err |-> NilErr, rows |-> 0, mapping |-> ftp_mapping]

\* update ftp_mapping set ftp_id = ? where system = ? and id = ?
ExecUpdateMapping(h, system, id, ftp) ==
    IF h # "live" THEN [err |-> BadConnection, rows |-> 0, mapping |-> ftp_mapping]
    ELSE IF MappingByKey(system, id) = {}
         THEN [err |-> NilErr, rows |-> 0, mapping |-> ftp_mapping]
    ELSE IF ~ForeignKeyHolds(ftp)
         THEN [err |-> ForeignKeyViolation, rows |-> 0, mapping |-> ftp_mapping]
    ELSE [err |-> NilErr, rows |-> Cardinality(MappingByKey(system, id)),
          mapping |-> (ftp_mapping \ MappingByKey(system, id))
                      \cup {[m EXCEPT !.ftp_id = ftp] : m \in MappingByKey(system, id)}]

\* faulty variant: the where clause without the system column
ExecDeleteMappingAnySystem(h, system, id) ==
    IF h # "live" THEN [err |-> BadConnection, rows |-> 0, mapping |-> ftp_mapping]
    ELSE [err |-> NilErr, rows |-> Cardinality({m \in ftp_mapping : m.id = id}),
          mapping |-> {m \in ftp_mapping : m.id # id}]

\* delete from ftp_mapping where system = ? and id = ?
ExecDeleteMapping(h, system, id) ==
    IF h # "live" THEN [err |-> BadConnection, rows |-> 0, mapping |-> ftp_mapping]
    ELSE [err |-> NilErr, rows |-> Cardinality(MappingByKey(system, id)),
          mapping |-> ftp_mapping \ MappingByKey(system, id)]

\* insert into ftp_account (username, description, password) values (?, ?, ?)
ExecInsertAccount(h, username, description, password) ==
    IF h # "live" THEN [err |-> BadConnection, id |-> 0, account |-> ftp_account]
    ELSE IF ~UsernameFree(username, 0)
         THEN [err |-> UniqueViolation, id |-> 0, account |-> ftp_account]
    ELSE [err |-> NilErr, id |-> nextId,
          account |-> ftp_account \cup {[id |-> nextId, username |-> username,
                                         description |-> description, password |-> password]}]

\* RowsAffected of an UPDATE that matched the rows of S and leaves those of
\* Same as they were.  PostgreSQL counts the rows matched.  MySQL, opened as
\* main.go opens it (no clientFoundRows in the data source name), counts the
\* rows changed: a row whose columns all keep their values is not counted, and
\* updated_on (a timestamp of one-second resolution) keeps its value unless
\* the clock has moved to another second since the row was written (tick).
RowsAffected(S, Same, tick) ==
    IF dbDriverName = MySQLDriverName /\ ~tick THEN Cardinality(S \ Same)
    ELSE Cardinality(S)

\* update ftp_account set username = ?, description = ?, updated_on = current_timestamp where id = ?
ExecUpdateAccount(h, username, description, id, tick) ==
    IF h # "live" THEN [err |-> BadConnection, rows |-> 0, account |-> ftp_account]
    ELSE IF AccountById(id) = {}
         THEN [err |-> NilErr, rows |-> 0, account |-> ftp_account]
    ELSE IF ~UsernameFree(username, id)
         THEN [err |-> UniqueViolation, rows |-> 0, account |-> ftp_account]
    ELSE [err |-> NilErr,
          rows |-> RowsAffected(AccountById(id),
                                {a \in AccountById(id) : /\ a.username = username
                                                         /\ a.description = description},
                                tick),
          account |-> (ftp_account \ AccountById(id))
                      \cup {[a EXCEPT !.username = username, !.description = description]
                            : a \in AccountById(id)}]

\* faulty variant: the arguments bound in the other order, so that the id
\* column is compared with the password
ExecUpdatePasswordArgOrder(h, password, id, tick) ==
    IF h # "live" THEN [err |-> BadConnection, rows |-> 0, account |-> ftp_account]
    ELSE [err |-> NilErr, rows |-> 0, account |-> ftp_account]

\* update ftp_account set password = ?, updated_on = current_timestamp where id = ?
\* with the arguments user.Password, user.ID
ExecUpdatePassword(h, password, id, tick) ==
    IF h # "live" THEN [err |-> BadConnection, rows |-> 0, account |-> ftp_account]
    ELSE [err |-> NilErr,
          rows |-> RowsAffected(AccountById(id),
                                {a \in AccountById(id) : a.password = password}, tick),
          account |-> (ftp_account \ AccountById(id))
                      \cup {[a EXCEPT !.password = password] : a \in AccountById(id)}]

\* delete from ftp_account where id = ?
ExecDeleteAccount(h, id) ==
    IF h # "live"
    THEN [err |-> BadConnection, rows |-> 0, account |-> ftp_account, mapping |-> ftp_mapping]
    ELSE [err |-> NilErr, rows |-> Cardinality(AccountById(id)),
          account |-> ftp_account \ AccountById(id),
          mapping |-> IF AccountById(id) = {} THEN ftp_mapping ELSE CascadeDelete(id)]

SetMin(S) == CHOOSE x \in S : \A y \in S : x <= y

\* select min(id) from ftp_account where username = ?, scanned into an int:
\* min over no row is NULL, which Scan refuses
ExecSelectMinId(h, username) ==
    IF h # "live" THEN [err |-> BadConnection, id |-> 0]
    ELSE IF AccountByName(username) = {} THEN [err |-> ScanNull, id |-> 0]
    ELSE [err |-> NilErr, id |-> SetMin({a.id : a \in AccountByName(username)})]

\* select id, username, description from ftp_account where id = ?
ExecSelectAccount(h, id) ==
    IF h # "live" THEN [err |-> BadConnection, rows |-> {}]
    ELSE [err |-> NilErr, rows |-> AccountById(id)]

\* the system name written into the query of FtpUserLookup
LookupSystem == "BillSys1"

\* select a.id, a.username, a.description, a.password, m.id folder from ftp_account a
\* inner join ftp_mapping m on a.id = m.ftp_id where a.username = ? and m.system = 'BillSys1'
ExecSelectLookup(h, username) ==
    IF h # "live" THEN [err |-> BadConnection, rows |-> {}]
    ELSE [err |-> NilErr,
          rows |-> {<<x[1], x[2].id>> : x \in
                      {y \in AccountByName(username) \X ftp_mapping :
                          y[1].id = y[2].ftp_id /\ y[2].system = LookupSystem}}]

\* select a.id, a.username, a.description from ftp_mapping m
\* inner join ftp_account a on m.ftp_id = a.id where m.system = ? and m.id = ?
ExecSelectMapping(h, system, id) ==
    IF h # "live" THEN [err |-> BadConnection, rows |-> {}]
    ELSE [err |-> NilErr,
          rows |-> {a \in ftp_account : \E m \in MappingByKey(system, id) : m.ftp_id = a.id}]

\* faulty variant: the where clause left out
ExecSelectSystemAll(h, system) ==
    IF h # "live" THEN [err |-> BadConnection, rows |-> {}]
    ELSE [err |-> NilErr,
          rows |-> {<<m.id, a.username>> : <<m, a>> \in
                      {x \in ftp_mapping \X ftp_account : x[1].ftp_id = x[2].id}}]

\* select distinct m.id, a.username from ftp_mapping m
\* inner join ftp_account a on m.ftp_id = a.id where m.system = ?
ExecSelectSystem(h, system) ==
    IF h # "live" THEN [err |-> BadConnection, rows |-> {}]
    ELSE [err |-> NilErr,
          rows |-> {<<m.id, a.username>> : <<m, a>> \in
                      {x \in ftp_mapping \X ftp_account :
                          x[1].system = system /\ x[1].ftp_id = x[2].id}}]

----------------------------------------------------------------------------
\* Callers

NoUser == [ID |-> 0, Username |-> "", Description |-> "", Password |-> ""]

\* A caller between two statements of one operation.  solo, log and insId are
\* history: solo holds while no other caller has run a statement since the
\* operation began, log lists the statements issued so far with their errors,
\* insId is the id the store gave to the row this call inserted.
Idle == [pc |-> "idle", system |-> "", sysid |-> "", ftp |-> 0, user |-> NoUser,
         http |-> FALSE, solo |-> TRUE, log |-> <<>>, insId |-> 0]

\* The call that returned in the last step: the operation, its arguments and
\* its results (status, err, id, rows, user), the response code and the body a
\* handler wrote (0 and <<>>: none), and what the returning statement found in the tables
\* (keyFtp: the account the key was mapped to, 0 if none; hadAcct: whether
\* the requested account existed).
NoCall == [op |-> "none", system |-> "", sysid |-> "", ftp |-> 0,
           user |-> NoUser, status |-> 0, err |-> NilErr, id |-> 0, rows |-> 0,
           out |-> NoUser, handler |-> "", code |-> 0, solo |-> TRUE, log |-> <<>>,
           insId |-> 0, keyFtp |-> 0, hadAcct |-> FALSE, dir |-> {}, body |-> <<>>,
           authenticated |-> TRUE, parses |-> TRUE, label |-> ""]

\* metrics.go: the status labels of ftpusersvc_logins_total
LoginStatusSuccess == "success"
LoginStatusAuthFailure == "authentication_failure"
LoginStatusServerError == "server_error"
LoginStatusBadPassword == "bad_password"
LoginStatusUserPassBlank == "username_password_blank"
LoginStatusUserNotFound == "username_not_found"
LoginStatuses == {LoginStatusSuccess, LoginStatusAuthFailure, LoginStatusServerError,
                  LoginStatusBadPassword, LoginStatusUserPassBlank, LoginStatusUserNotFound}

\* loginLabels["status"] and the counter vector as the process starts; pending
\* is the response each LoginHandler in progress is about to write.  served
\* and started are history: the logins answered per outcome, and the number begun.
\* fatal: the runtime has stopped the process.
NoMetrics == [loginLabels |-> "", countLoginTotals |-> [l \in LoginStatuses |-> 0],
              pending |-> [c \in Callers |-> NoCall],
              served |-> [l \in LoginStatuses |-> 0], started |-> 0, fatal |-> FALSE]

AuxIdle == conn = NoConn /\ fq = NoFq /\ gs = NoGs /\ metrics = NoMetrics

Stmt(q, err) == [q |-> q, err |-> err]

KeyFtp(system, id) ==
    IF MappingByKey(system, id) = {} THEN 0
    ELSE SetMin({m.ftp_id : m \in MappingByKey(system, id)})

\* Another caller's statement ends the solo run of the calls in progress
Disturb(r) == IF r.pc = "idle" THEN r ELSE [r EXCEPT !.solo = FALSE]

\* Caller c moves to r; ev is the call that returns in this step
Step(c, r, ev) ==
    /\ call' = [q \in Callers |-> IF q = c THEN r ELSE Disturb(call[q])]
    /\ last' = ev

\* checkDBConnection: a ping through the handle; when it fails attemptConnection
\* opens a new handle (sql.Open does not contact the server, so the new handle
\* may be as dead as the old one).  The set of handles the statement may run on.
checkDBConnection == IF handle = "live" THEN {"live"} ELSE {"live", "dead"}

----------------------------------------------------------------------------
\* MappingCreate

\* faulty variant: the switch without the case MappingFTPAccountNotFound
PostCodeNoNotFound(status, err) ==
    IF err # NilErr THEN StatusInternalServerError
    ELSE IF status = MappingUpdated THEN StatusOK
    ELSE 0

\* the response systemPostWithVars writes for a MappingCreate result that ends
\* the request (0: none written)
PostCode(status, err) ==
    IF err # NilErr THEN StatusInternalServerError
    ELSE IF status = MappingFTPAccountNotFound THEN StatusNotFound
    ELSE IF status = MappingUpdated THEN StatusOK
    ELSE 0

McEvent(c, r, status, err, log) ==
    [NoCall EXCEPT !.op = "MappingCreate", !.system = r.system,
                   !.sysid = r.sysid, !.ftp = r.ftp, !.status = status, !.err = err,
                   !.handler = IF r.http THEN "SystemPost" ELSE "",
                   !.code = IF r.http THEN PostCode(status, err) ELSE 0,
                   !.solo = r.solo, !.log = log,
                   !.keyFtp = KeyFtp(r.system, r.sysid),
                   !.hadAcct = r.ftp \in AccountIds]

\* data.go MappingCreate up to and including the INSERT
McInsert(c, system, sysid, ftp, http) ==
    \E h \in checkDBConnection :
        LET res == ExecInsertMapping(h, system, sysid, ftp)
            r == [Idle EXCEPT !.system = system, !.sysid = sysid, !.ftp = ftp,
                              !.http = http, !.log = <<Stmt("insert", res.err)>>]
        IN  /\ handle' = h
            /\ ftp_mapping' = res.mapping
            /\ UNCHANGED <<ftp_account, nextId, dbDriverName, sel, aux>>
            /\ IF res.err = NilErr
               THEN Step(c, IF http THEN [r EXCEPT !.pc = "sp_get"] ELSE Idle,
                         McEvent(c, r, MappingInserted, NilErr, r.log))
               ELSE IF checkPrimaryKeyErr(res.err)
               THEN Step(c, [r EXCEPT !.pc = "mc_update"], NoCall)
               ELSE Step(c, Idle, McEvent(c, r, MappingError, res.err, r.log))

MappingCreate(c) ==
    /\ call[c].pc = "idle"
    /\ \E system \in Systems, sysid \in SystemIDs, ftp \in FtpIds :
           McInsert(c, system, sysid, ftp, FALSE)

\* data.go MappingCreate: the UPDATE that follows an INSERT refused for its key
MappingCreateUpdate(c) ==
    /\ call[c].pc = "mc_update"
    /\ LET r == call[c]
           res == ExecUpdateMapping(handle, r.system, r.sysid, r.ftp)
           log == Append(r.log, Stmt("update", res.err))
       IN  /\ ftp_mapping' = res.mapping
           /\ UNCHANGED <<ftp_account, nextId, dbDriverName, handle, sel, aux>>
           /\ IF res.err # NilErr
              THEN IF checkForeignKeyErr(res.err)
                   THEN Step(c, Idle, McEvent(c, r, MappingFTPAccountNotFound, NilErr, log))
                   ELSE Step(c, Idle, McEvent(c, r, MappingError, res.err, log))
              ELSE Step(c, Idle, McEvent(c, r, MappingUpdated, NilErr, log))

----------------------------------------------------------------------------
\* The other operations of the Datastore interface

\* json.Marshal of an FtpUser: every field is omitempty
Marshal(user) ==
    [k \in {f \in {"id", "username", "description", "password"} :
               \/ f = "id" /\ user.ID # 0
               \/ f = "username" /\ user.Username # ""
               \/ f = "description" /\ user.Description # ""
               \/ f = "password" /\ user.Password # ""} |->
        CASE k = "id" -> user.ID
          [] k = "username" -> user.Username
          [] k = "description" -> user.Description
          [] OTHER -> user.Password]

\* json.Marshal of a Mapping: system and id are omitempty, the account is a
\* struct and always written
MarshalMapping(system, id, user) ==
    [k \in {"ftp_account"} \cup {f \in {"system", "id"} :
                                    \/ f = "system" /\ system # ""
                                    \/ f = "id" /\ id # ""} |->
        CASE k = "system" -> system
          [] k = "id" -> id
          [] OTHER -> Marshal(user)]

\* the map SystemIDUserRetrieve builds from the rows: result[id] = username
Directory(rows) ==
    [i \in {p[1] : p \in rows} |-> CHOOSE u \in {p[2] : p \in rows} : <<i, u>> \in rows]

\* the event of a data-layer call made by a handler, with what the handler
\* wrote; handler "" is a call made directly
Answer(ev, handler, code, body) ==
    IF handler = "" THEN ev
    ELSE [ev EXCEPT !.handler = handler, !.code = code, !.body = body]

\* the body apierror.WriteResponse writes: status, location and the error text
apiError(handler, status, err) ==
    [status |-> status, location |-> handler, error |-> IF err = NilErr THEN "" ELSE err]

\* A handler answers a request for the system named without calling the data
\* layer; 401 is the answer to a request that auth.Authenticate refused
RespondFor(c, handler, code, system) ==
    /\ last' = [NoCall EXCEPT !.handler = handler, !.code = code, !.system = system,
                              !.authenticated = (code # StatusUnauthorized),
                              !.body = apiError(handler, code, NilErr)]
    /\ UNCHANGED <<ftp_account, ftp_mapping, nextId, dbDriverName, handle, call, sel, aux>>

\* A handler answers without calling the data layer
Respond(c, handler, code) ==
    /\ last' = [NoCall EXCEPT !.handler = handler, !.code = code,
                              !.authenticated = (code # StatusUnauthorized),
                              !.body = apiError(handler, code, NilErr)]
    /\ UNCHANGED <<ftp_account, ftp_mapping, nextId, dbDriverName, handle, call, sel, aux>>

\* faulty variant: the password column selected and scanned as well
ScannedWithPassword(a) == [ID |-> a.id, Username |-> a.username, Description |-> a.description,
                           Password |-> a.password]

\* the FtpUser that FtpUserGet and MappingRetrieve scan from a row: the
\* password is not selected
Scanned(a) == [ID |-> a.id, Username |-> a.username, Description |-> a.description,
               Password |-> ""]

\* data.go FtpUserGet: the user and the error it returns through handle h
FtpUserGet(h, id) ==
    LET res == ExecSelectAccount(h, id)
    IN  IF res.err # NilErr THEN [out |-> NoUser, err |-> res.err]
        ELSE IF res.rows = {} THEN [out |-> NoUser, err |-> ErrUserNotFound]
        ELSE [out |-> Scanned(CHOOSE a \in res.rows : TRUE), err |-> NilErr]

\* The requests POST /mappings/{system} receives: the API key matches or not,
\* the body is JSON for a NewMapping or not, and the fields it carries
PostRequests ==
    {[authenticated |-> FALSE, body |-> "json", system |-> "BillSys1", sysid |-> "123", ftp |-> 1],
     [authenticated |-> TRUE, body |-> "garbage", system |-> "BillSys1", sysid |-> "", ftp |-> 0]}
    \cup [authenticated : {TRUE}, body : {"json"}, system : Systems \cup {""},
          sysid : SystemIDs \cup {""}, ftp : FtpIds \cup {0}]

\* handlers systemPostWithVars up to its call of MappingCreate
SystemPost(c) ==
    /\ call[c].pc = "idle"
    /\ \E req \in PostRequests :
           IF ~req.authenticated THEN Respond(c, "SystemPost", StatusUnauthorized)
           ELSE IF req.body # "json" THEN Respond(c, "SystemPost", StatusInternalServerError)
           ELSE IF req.system = "" \/ req.sysid = "" \/ req.ftp = 0
                THEN Respond(c, "SystemPost", StatusBadRequest)
           ELSE McInsert(c, req.system, req.sysid, req.ftp, TRUE)

\* handlers systemPostWithVars after MappingInserted: FtpUserGet and the response
SystemPostGet(c) ==
    /\ call[c].pc = "sp_get"
    /\ \E h \in checkDBConnection :
        LET r == call[c]
            res == FtpUserGet(h, r.ftp)
        IN  /\ handle' = h
            /\ UNCHANGED <<ftp_account, ftp_mapping, nextId, dbDriverName, sel, aux>>
            /\ Step(c, Idle,
                    [NoCall EXCEPT !.op = "FtpUserGet", !.system = r.system,
                         !.sysid = r.sysid, !.ftp = r.ftp, !.err = res.err, !.out = res.out,
                         !.handler = "SystemPost", !.solo = r.solo,
                         !.hadAcct = r.ftp \in AccountIds,
                         !.code = IF res.err # NilErr THEN StatusInternalServerError
                                  ELSE StatusCreated,
                         !.body = IF res.err # NilErr
                                  THEN apiError("SystemPost", StatusInternalServerError, res.err)
                                  ELSE MarshalMapping(r.system, r.sysid,
                                                      [res.out EXCEPT !.Password = ""])])

\* what SystemIDDelete writes for the result of MappingDelete
DeleteCode(rows, err) ==
    IF err # NilErr THEN StatusInternalServerError
    ELSE IF rows = 0 THEN StatusNotFound
    ELSE StatusNoContent

\* data.go MappingDelete, called directly or by the handler named
MappingDeleteCall(c, system, sysid, handler) ==
    \E h \in checkDBConnection :
        LET res == ExecDeleteMapping(h, system, sysid)
            ev == [NoCall EXCEPT !.op = "MappingDelete", !.system = system,
                       !.sysid = sysid, !.err = res.err, !.rows = res.rows,
                       !.keyFtp = KeyFtp(system, sysid)]
        IN  /\ handle' = h
            /\ ftp_mapping' = res.mapping
            /\ UNCHANGED <<ftp_account, nextId, dbDriverName, sel, aux>>
            /\ Step(c, Idle,
                    Answer(ev, handler, DeleteCode(res.rows, res.err),
                           IF res.err # NilErr
                           THEN apiError(handler, StatusInternalServerError, res.err)
                           ELSE <<>>))

MappingDelete(c) ==
    /\ call[c].pc = "idle"
    /\ \E system \in Systems, sysid \in SystemIDs : MappingDeleteCall(c, system, sysid, "")

\* data.go MappingRetrieve, called directly or by the handler named
MappingRetrieveCall(c, system, sysid, handler) ==
    \E h \in checkDBConnection :
        LET res == ExecSelectMapping(h, system, sysid)
            ev == [NoCall EXCEPT !.op = "MappingRetrieve",
                       !.system = system, !.sysid = sysid,
                       !.keyFtp = KeyFtp(system, sysid)]
        IN  /\ handle' = h
            /\ UNCHANGED <<ftp_account, ftp_mapping, nextId, dbDriverName, sel, aux>>
            /\ Step(c, Idle,
                    IF res.err # NilErr
                    THEN Answer([ev EXCEPT !.err = res.err], handler, StatusInternalServerError,
                                apiError(handler, StatusInternalServerError, res.err))
                    ELSE IF res.rows = {}
                    THEN Answer([ev EXCEPT !.err = ErrMappingNotFound], handler, StatusNotFound,
                                apiError(handler, StatusNotFound, NilErr))
                    ELSE LET user == Scanned(CHOOSE a \in res.rows : TRUE)
                         IN  Answer([ev EXCEPT !.out = user], handler, StatusOK,
                                    MarshalMapping(system, sysid, user)))

MappingRetrieve(c) ==
    /\ call[c].pc = "idle"
    /\ \E system \in Systems, sysid \in SystemIDs : MappingRetrieveCall(c, system, sysid, "")

\* what systemGetWithVars writes for the result of SystemIDUserRetrieve
DirectoryCode(result, err) ==
    IF err # NilErr THEN StatusInternalServerError
    ELSE IF Cardinality(DOMAIN result) < 1 THEN StatusNotFound
    ELSE StatusOK

\* data.go SystemIDUserRetrieve, called directly or by the handler named; dir
\* is the map returned, as its set of <<id, username>> entries
SystemIDUserRetrieveCall(c, system, handler) ==
    \E h \in checkDBConnection :
        LET res == ExecSelectSystem(h, system)
            result == Directory(res.rows)
            code == DirectoryCode(result, res.err)
            ev == [NoCall EXCEPT !.op = "SystemIDUserRetrieve", !.system = system,
                       !.err = res.err,
                       !.dir = {<<i, result[i]>> : i \in DOMAIN result}]
        IN  /\ handle' = h
            /\ UNCHANGED <<ftp_account, ftp_mapping, nextId, dbDriverName, sel, aux>>
            /\ Step(c, Idle,
                    Answer(ev, handler, code,
                           IF code = StatusOK THEN result
                           ELSE apiError(handler, code, res.err)))

SystemIDUserRetrieve(c) ==
    /\ call[c].pc = "idle"
    /\ \E system \in Systems : SystemIDUserRetrieveCall(c, system, "")

\* what Post writes for the result of FtpUserCreate
CreateCode(err) ==
    IF err = NilErr THEN StatusCreated
    ELSE IF err = ErrFTPAccountExists THEN StatusConflict
    ELSE StatusInternalServerError

\* the results of FtpUserCreate and, for a call made by Post, the response:
\* the user of the request with the id returned and the password blanked
UcEvent(c, r, id, err, log) ==
    Answer([NoCall EXCEPT !.op = "FtpUserCreate", !.user = r.user, !.id = id,
                          !.err = err, !.solo = r.solo, !.log = log, !.insId = r.insId],
           IF r.http THEN "Post" ELSE "", CreateCode(err),
           IF err = NilErr THEN Marshal([r.user EXCEPT !.ID = id, !.Password = ""])
           ELSE apiError("Post", CreateCode(err), err))

\* data.go FtpUserCreate up to and including the INSERT
UcInsert(c, user, http) ==
    \E h \in checkDBConnection :
        LET res == ExecInsertAccount(h, user.Username, user.Description, user.Password)
            r == [Idle EXCEPT !.user = user, !.http = http,
                              !.log = <<Stmt("insert", res.err)>>, !.insId = res.id]
        IN  /\ res.err = NilErr => nextId <= MaxId
            /\ handle' = h
            /\ ftp_account' = res.account
            /\ nextId' = IF res.err = NilErr THEN nextId + 1 ELSE nextId
            /\ UNCHANGED <<ftp_mapping, dbDriverName, sel, aux>>
            /\ IF res.err # NilErr
               THEN IF checkPrimaryKeyErr(res.err)
                    THEN Step(c, Idle, UcEvent(c, r, 0, ErrFTPAccountExists, r.log))
                    ELSE Step(c, Idle, UcEvent(c, r, 0, res.err, r.log))
               ELSE Step(c, [r EXCEPT !.pc = "uc_lookup"], NoCall)

FtpUserCreate(c) ==
    /\ call[c].pc = "idle"
    /\ \E user \in NewUsers : UcInsert(c, user, FALSE)

\* data.go FtpUserCreate: the select min(id) after the INSERT
FtpUserCreateLookup(c) ==
    /\ call[c].pc = "uc_lookup"
    /\ LET r == call[c]
           res == ExecSelectMinId(handle, r.user.Username)
           log == Append(r.log, Stmt("select", res.err))
       IN  /\ UNCHANGED <<ftp_account, ftp_mapping, nextId, dbDriverName, handle, sel, aux>>
           /\ IF res.err # NilErr
              THEN Step(c, Idle, UcEvent(c, r, 0, res.err, log))
              ELSE Step(c, Idle, UcEvent(c, r, res.id, NilErr, log))

\* what IDPut writes for the result of FtpUserUpdate
PutCode(err) ==
    IF err = NilErr THEN StatusOK
    ELSE IF err = ErrFTPAccountNotFound THEN StatusNotFound
    ELSE StatusInternalServerError

\* data.go FtpUserUpdate, called directly or by the handler named
FtpUserUpdateCall(c, user, handler) ==
    \E h \in checkDBConnection, tick \in BOOLEAN :
        LET res == ExecUpdateAccount(h, user.Username, user.Description, user.ID, tick)
            err == IF res.err # NilErr THEN res.err
                   ELSE IF res.rows = 0 THEN ErrFTPAccountNotFound
                   ELSE NilErr
            ev == [NoCall EXCEPT !.op = "FtpUserUpdate", !.user = user,
                       !.hadAcct = user.ID \in AccountIds, !.err = err]
        IN  /\ handle' = h
            /\ ftp_account' = res.account
            /\ UNCHANGED <<ftp_mapping, nextId, dbDriverName, sel, aux>>
            /\ Step(c, Idle,
                    Answer(ev, handler, PutCode(err),
                           IF err = NilErr THEN Marshal([user EXCEPT !.Password = ""])
                           ELSE apiError(handler, PutCode(err), err)))

FtpUserUpdate(c) ==
    /\ call[c].pc = "idle"
    /\ \E id \in FtpIds, upd \in UserUpdates :
           FtpUserUpdateCall(c, [ID |-> id, Username |-> upd.Username,
                                 Description |-> upd.Description, Password |-> ""], "")

\* data.go FtpUserUpdatePassword
FtpUserUpdatePassword(c) ==
    /\ call[c].pc = "idle"
    /\ \E id \in FtpIds, password \in NewPasswords, h \in checkDBConnection, tick \in BOOLEAN :
        LET res == ExecUpdatePassword(h, password, id, tick)
        IN  /\ handle' = h
            /\ ftp_account' = res.account
            /\ UNCHANGED <<ftp_mapping, nextId, dbDriverName, sel, aux>>
            /\ Step(c, Idle,
                    [NoCall EXCEPT !.op = "FtpUserUpdatePassword",
                         !.user = [NoUser EXCEPT !.ID = id, !.Password = password],
                         !.hadAcct = id \in AccountIds,
                         !.err = IF res.err # NilErr THEN res.err
                                 ELSE IF res.rows = 0 THEN ErrFTPAccountNotFound
                                 ELSE NilErr])

\* data.go FtpUserLookup through handle h: the user of the rows scanned (dir:
\* its virtual folders, one per row) and the error
LookupEvent(h, username) ==
    LET res == ExecSelectLookup(h, username)
        a == (CHOOSE x \in res.rows : TRUE)[1]
        ev == [NoCall EXCEPT !.op = "FtpUserLookup", !.user = [NoUser EXCEPT !.Username = username]]
    IN  IF res.err # NilErr THEN [ev EXCEPT !.err = res.err]
        ELSE IF res.rows = {} THEN [ev EXCEPT !.err = ErrUserNotFound]
        ELSE [ev EXCEPT !.out = [ID |-> a.id, Username |-> a.username,
                                 Description |-> a.description,
                                 Password |-> a.password],
                        !.dir = {x[2] : x \in res.rows}]

FtpUserLookup(c) ==
    /\ call[c].pc = "idle"
    /\ \E username \in Usernames, h \in checkDBConnection :
           /\ handle' = h
           /\ UNCHANGED <<ftp_account, ftp_mapping, nextId, dbDriverName, sel, aux>>
           /\ Step(c, Idle, LookupEvent(h, username))

FtpUserDelete(c) ==
    /\ call[c].pc = "idle"
    /\ \E id \in FtpIds, h \in checkDBConnection :
        LET res == ExecDeleteAccount(h, id)
        IN  /\ handle' = h
            /\ ftp_account' = res.account
            /\ ftp_mapping' = res.mapping
            /\ UNCHANGED <<nextId, dbDriverName, sel, aux>>
            /\ Step(c, Idle,
                    [NoCall EXCEPT !.op = "FtpUserDelete", !.id = id,
                         !.hadAcct = id \in AccountIds, !.dir = KeysOf(id),
                         !.err = IF res.err # NilErr THEN res.err
                                 ELSE IF res.rows = 0 THEN ErrFTPAccountNotFound
                                 ELSE NilErr])

\* The server becomes unreachable through the open handle
ConnectionLost ==
    /\ handle = "live"
    /\ handle' = "dead"
    /\ last' = NoCall
    /\ UNCHANGED <<ftp_account, ftp_mapping, nextId, dbDriverName, call, sel, aux>>

----------------------------------------------------------------------------
\* uint32 arithmetic.  A uint32 is the pair <<high 16 bits, low 16 bits>>.

U32(n) == <<n \div 65536, n % 65536>>
U32Lt(a, b) == a[1] < b[1] \/ (a[1] = b[1] /\ a[2] < b[2])

\* a - b modulo 2^32
U32Sub(a, b) ==
    LET lo == a[2] - b[2]
        hi == a[1] - b[1] - (IF lo < 0 THEN 1 ELSE 0)
    IN  <<hi % 65536, lo % 65536>>

\* a + 1 modulo 2^32
U32Inc(a) == IF a[2] = 65535 THEN <<(a[1] + 1) % 65536, 0>> ELSE <<a[1], a[2] + 1>>

\* the four bytes of a uint32, least significant first
Bytes(a) == <<a[2] % 256, a[2] \div 256, a[1] % 256, a[1] \div 256>>

RECURSIVE Carry(_, _, _, _)
Carry(A, B, k, c) ==
    IF k > 7 THEN <<>>
    ELSE LET T(i) == IF k + 2 - i \in 1..4 THEN A[i] * B[k + 2 - i] ELSE 0
             t == T(1) + T(2) + T(3) + T(4) + c
         IN  <<t % 256>> \o Carry(A, B, k + 1, t \div 256)

\* the exact product of two uint32: eight bytes, least significant first
Product(a, b) == Carry(Bytes(a), Bytes(b), 0, 0)

\* a * b as Go computes it on uint32: the low 32 bits of the product
U32Mul(a, b) ==
    LET p == Product(a, b) IN <<p[4] * 256 + p[3], p[2] * 256 + p[1]>>

RECURSIVE DivBySub(_, _)
DivBySub(n, d) ==
    IF U32Lt(n, d) THEN [quo |-> <<0, 0>>, rem |-> n]
    ELSE LET r == DivBySub(U32Sub(n, d), d) IN [quo |-> U32Inc(r.quo), rem |-> r.rem]

\* n / d and n % d on uint32, d # 0: long division byte by byte for a divisor
\* below 2^23, repeated subtraction above (the quotient is then below 2^9)
U32DivMod(n, d) ==
    IF d[1] >= 128 THEN DivBySub(n, d)
    ELSE LET dv == d[1] * 65536 + d[2]
             b == Bytes(n)
             t4 == b[4]
             t3 == (t4 % dv) * 256 + b[3]
             t2 == (t3 % dv) * 256 + b[2]
             t1 == (t2 % dv) * 256 + b[1]
         IN  [quo |-> <<(t4 \div dv) * 256 + (t3 \div dv), (t2 \div dv) * 256 + (t1 \div dv)>>,
              rem |-> U32(t1 % dv)]

----------------------------------------------------------------------------
\* FtpUserGetSelection: page arithmetic

DefaultPageSize == 30

\* set default page and page_size if not provided
NormPageSize(pageSize) == IF pageSize = U32(0) THEN U32(DefaultPageSize) ELSE pageSize
NormPage(page) == IF page = U32(0) THEN U32(1) ELSE page

\* offset := (page - 1) * pageSize, on the normalized values
Offset(page, pageSize) == U32Mul(U32Sub(page, U32(1)), pageSize)

\* faulty variant: the remainder is not counted
TotalPagesFloor(totalItems, pageSize) ==
    IF pageSize = U32(0) THEN [panic |-> TRUE, pages |-> U32(0)]
    ELSE [panic |-> FALSE, pages |-> U32DivMod(totalItems, pageSize).quo]

\* users.TotalPages: TotalItems / pageSize, one more when there is a remainder.
\* A zero divisor is a run-time panic.
TotalPages(totalItems, pageSize) ==
    IF pageSize = U32(0) THEN [panic |-> TRUE, pages |-> U32(0)]
    ELSE LET dm == U32DivMod(totalItems, pageSize)
         IN  [panic |-> FALSE,
              pages |-> IF dm.rem # U32(0) THEN U32Inc(dm.quo) ELSE dm.quo]

NoSel == [pc |-> "none", page |-> U32(0), pageSize |-> U32(0), totalItems |-> U32(0),
          normPage |-> U32(0), normPageSize |-> U32(0), offset |-> U32(0),
          totalPages |-> U32(0), panic |-> FALSE]

\* The arithmetic of FtpUserGetSelection between its count query, which gave
\* sel.totalItems, and its select query
SelectionPages ==
    /\ sel.pc = "counted"
    /\ LET pageSize == NormPageSize(sel.pageSize)
           page == NormPage(sel.page)
           tp == TotalPages(sel.totalItems, pageSize)
       IN  sel' = [sel EXCEPT !.pc = IF tp.panic THEN "panic" ELSE "paged",
                              !.normPage = page, !.normPageSize = pageSize,
                              !.offset = Offset(page, pageSize),
                              !.totalPages = tp.pages, !.panic = tp.panic]
    /\ UNCHANGED <<ftp_account, ftp_mapping, nextId, dbDriverName, handle, call, last, aux>>

\* page, page_size and count(id) values the arithmetic is checked on
SelPages == {U32(0), U32(1), U32(2), U32(16), <<1, 1>>, <<32768, 1>>, <<65535, 65535>>}
SelPageSizes == {U32(0), U32(1), U32(9), U32(30), <<1, 0>>, <<32768, 0>>, <<65535, 65535>>}
SelTotals == {U32(0), U32(1), U32(30), U32(31), U32(138), U32(300), <<1, 0>>,
              <<65535, 65534>>, <<65535, 65535>>}

InitPage ==
    /\ ftp_account = {}
    /\ ftp_mapping = {}
    /\ nextId = 1
    /\ dbDriverName = PostgreSQLDriverName
    /\ handle = "live"
    /\ call = [c \in Callers |-> Idle]
    /\ last = NoCall
    /\ sel \in [pc : {"counted"}, page : SelPages, pageSize : SelPageSizes,
                totalItems : SelTotals, normPage : {U32(0)}, normPageSize : {U32(0)},
                offset : {U32(0)}, totalPages : {U32(0)}, panic : {FALSE}]
    /\ AuxIdle

NextPage == SelectionPages

SpecPage == InitPage /\ [][NextPage]_vars

----------------------------------------------------------------------------
\* NewDB, attemptConnection, checkDBConnection

connectionRetryAttempts == 10
retrySleepSeconds == 5

\* the calls of NewDB one run makes
MaxNewDB == 2

\* what sql.Open answers when it cannot open a handle, and a nil dereference
OpenError == "sql: open failed"
Panic == "panic: nil pointer dereference"

\* data source names as strings.Split(dataSourceName, "://") cuts them
DataSources == {<<"mysql", "user:pw@tcp(db:3306)/ftp">>, <<"postgres", "user:pw@db/ftp">>,
                <<"sqlite", "ftp.db">>, <<"ftp.db">>}

\* the eleven operations of the Datastore interface
Operations == {"FtpUserLookup", "MappingDelete", "MappingRetrieve", "MappingCreate",
               "FtpUserGetSelection", "FtpUserGet", "FtpUserCreate", "FtpUserUpdate",
               "FtpUserDelete", "FtpUserUpdatePassword", "SystemIDUserRetrieve"}

ConnUnchanged == UNCHANGED <<ftp_account, ftp_mapping, nextId, handle, call, last, sel, fq, gs, metrics>>

\* NewDB up to its call of attemptConnection: the package variable dbDriverName
\* is set only for the two known schemes and keeps its value otherwise
NewDB(segs) ==
    /\ conn.pc \in {"none", "failed", "ready"}
    /\ conn.calls < MaxNewDB
    /\ LET driver == IF segs[1] = PostgreSQLDriverName /\ Len(segs) >= 2 THEN PostgreSQLDriverName
                     ELSE IF segs[1] = MySQLDriverName /\ Len(segs) >= 2 THEN MySQLDriverName
                     ELSE dbDriverName
           c == [NoConn EXCEPT !.op = "NewDB", !.calls = conn.calls + 1, !.source = segs,
                               !.opened = conn.opened]
       IN  IF Len(segs) < 2
           THEN /\ conn' = [c EXCEPT !.pc = "failed", !.ret = "protocol not specified"]
                /\ UNCHANGED dbDriverName
           ELSE /\ dbDriverName' = driver
                /\ conn' = IF driver = ""
                           THEN [c EXCEPT !.pc = "failed", !.ret = "protocol not supported"]
                           ELSE [c EXCEPT !.pc = "open"]
    /\ ConnUnchanged

\* faulty variant: the loop has no break, so it opens again after a success
sqlOpenNoBreak ==
    /\ conn.pc = "open"
    /\ \E ok \in BOOLEAN :
           conn' = [conn EXCEPT !.db = IF ok THEN "open" ELSE "nil", !.pooled = FALSE,
                                !.err = IF ok THEN NilErr ELSE OpenError,
                                !.log = Append(@, IF ok THEN "open:ok" ELSE "open:err"),
                                !.attempt = IF ok THEN @ + 1 ELSE @,
                                !.pc = IF ~ok THEN "sleep"
                                       ELSE IF conn.attempt + 1 < connectionRetryAttempts
                                            THEN "open" ELSE "after"]
    /\ UNCHANGED dbDriverName
    /\ ConnUnchanged

\* attemptConnection, one iteration: db.DB, err = sql.Open(dbDriverName, connStr);
\* a success leaves the loop, a failure goes to sleep
sqlOpen ==
    /\ conn.pc = "open"
    /\ \E ok \in BOOLEAN :
           conn' = [conn EXCEPT !.db = IF ok THEN "open" ELSE "nil", !.pooled = FALSE,
                                !.err = IF ok THEN NilErr ELSE OpenError,
                                !.log = Append(@, IF ok THEN "open:ok" ELSE "open:err"),
                                !.pc = IF ok THEN "after" ELSE "sleep"]
    /\ UNCHANGED dbDriverName
    /\ ConnUnchanged

\* attemptConnection after a failed open: time.Sleep, err = nil, continue
Sleep ==
    /\ conn.pc = "sleep"
    /\ conn' = [conn EXCEPT !.err = NilErr,
                            !.log = Append(@, "sleep"),
                            !.slept = @ + retrySleepSeconds,
                            !.attempt = @ + 1,
                            !.pc = IF conn.attempt + 1 < connectionRetryAttempts
                                   THEN "open" ELSE "after"]
    /\ UNCHANGED dbDriverName
    /\ ConnUnchanged

\* attemptConnection after the loop: the error check, the pool settings of
\* PostgreSQL (a nil handle panics there), and the return to NewDB or to the
\* operation that called checkDBConnection (opened: the driver name at the
\* first NewDB that returned a Database)
attemptConnection ==
    /\ conn.pc = "after"
    /\ conn' =
         IF conn.err # NilErr
         THEN [conn EXCEPT !.ret = conn.err,
                           !.pc = IF conn.op = "NewDB" THEN "failed" ELSE "ready"]
         ELSE IF dbDriverName = PostgreSQLDriverName /\ conn.db = "nil"
         THEN [conn EXCEPT !.ret = Panic,
                           !.pc = IF conn.op = "NewDB" THEN "crashed" ELSE "ready"]
         ELSE [conn EXCEPT !.pooled = (dbDriverName = PostgreSQLDriverName),
                           !.log = IF dbDriverName = PostgreSQLDriverName
                                   THEN Append(@, "pool") ELSE @,
                           !.ret = IF conn.op = "NewDB" THEN NilErr ELSE @,
                           !.opened = IF conn.op = "NewDB" /\ @ = "" THEN dbDriverName ELSE @,
                           !.pc = IF conn.op = "NewDB" THEN "ready" ELSE "stmt"]
    /\ UNCHANGED dbDriverName
    /\ ConnUnchanged

\* An operation begins: checkDBConnection pings through the handle (a nil
\* handle panics); a failed ping runs attemptConnection
Ping(o) ==
    /\ conn.pc = "ready"
    /\ LET c == [conn EXCEPT !.op = o, !.attempt = 0, !.err = NilErr, !.ret = "",
                             !.log = <<>>, !.slept = 0]
       IN  IF conn.db # "open"
           THEN conn' = [c EXCEPT !.log = <<"ping:panic">>, !.ret = Panic]
           ELSE \E ok \in BOOLEAN :
                    conn' = [c EXCEPT !.log = <<IF ok THEN "ping:ok" ELSE "ping:err">>,
                                      !.pc = IF ok THEN "stmt" ELSE "open"]
    /\ UNCHANGED dbDriverName
    /\ ConnUnchanged

\* The operation issues its first statement through the handle
Statement ==
    /\ conn.pc = "stmt"
    /\ conn' = IF conn.db # "open"
               THEN [conn EXCEPT !.ret = Panic, !.pc = "ready"]
               ELSE [conn EXCEPT !.log = Append(@, "stmt"), !.ret = NilErr, !.pc = "ready"]
    /\ UNCHANGED dbDriverName
    /\ ConnUnchanged

InitConn ==
    /\ ftp_account = {}
    /\ ftp_mapping = {}
    /\ nextId = 1
    /\ dbDriverName = ""
    /\ handle = "live"
    /\ call = [c \in Callers |-> Idle]
    /\ last = NoCall
    /\ sel = NoSel
    /\ AuxIdle

\* the steps of attemptConnection, each of which completes
ConnSteps == sqlOpen \/ Sleep \/ attemptConnection

NextConn ==
    \/ \E segs \in DataSources : NewDB(segs)
    \/ sqlOpen
    \/ Sleep
    \/ attemptConnection
    \/ \E o \in Operations : Ping(o)
    \/ Statement

SpecConn == InitConn /\ [][NextConn]_vars /\ WF_vars(ConnSteps)

----------------------------------------------------------------------------
\* FtpUserGetSelection: the count query, the page arithmetic, the select query.
\* Texts are sequences of characters here, so that like can be matched.

\* s like p: % matches any run of characters, _ any one character
RECURSIVE Like(_, _)
Like(s, p) ==
    IF p = <<>> THEN s = <<>>
    ELSE IF Head(p) = "%" THEN Like(s, Tail(p)) \/ (s # <<>> /\ Like(Tail(s), p))
    ELSE s # <<>> /\ (Head(p) = "_" \/ Head(p) = Head(s)) /\ Like(Tail(s), Tail(p))

\* the rows the filter clause keeps: where username like ? or description like ?
\* with filter = "%" + search + "%", and every row when search is empty
Filtered(search) ==
    IF search = <<>> THEN ftp_account
    ELSE LET filter == <<"%">> \o search \o <<"%">>
         IN  {a \in ftp_account : Like(a.username, filter) \/ Like(a.description, filter)}

\* the first n rows of S after skipping skip rows, order by id
OrderById(S, skip, n) ==
    LET Rank(a) == Cardinality({b \in S : b.id <= a.id})
        len == IF Cardinality(S) - skip < n THEN Cardinality(S) - skip ELSE n
    IN  [p \in 1..len |-> CHOOSE a \in S : Rank(a) = skip + p]

\* a uint32 row count or offset applied to n rows: min(u, n)
Clip(u, n) == IF u[1] > 0 \/ u[2] > n THEN n ELSE u[2]

\* limit offset, pageSize (MySQL) and limit pageSize offset offset (PostgreSQL)
\* select the same rows
getLimitClauseForDriver(S, pageSize, offset) ==
    LET n == Cardinality(S)
    IN  IF dbDriverName = MySQLDriverName \/ dbDriverName = PostgreSQLDriverName
        THEN OrderById(S, Clip(offset, n), Clip(pageSize, n))
        ELSE OrderById(S, 0, n)

\* select count(id) from ftp_account [filter clause], scanned into users.TotalItems
FtpUserGetSelectionCount ==
    /\ gs.pc = "call"
    /\ gs' = [gs EXCEPT !.pc = "counted",
                        !.totalItems = U32(Cardinality(Filtered(gs.search)))]
    /\ UNCHANGED <<ftp_account, ftp_mapping, nextId, dbDriverName, handle, call, last, sel,
                   conn, fq, metrics>>

\* the normalization, the offset, TotalPages and the select query with its
\* limit clause; every row is scanned without its password
FtpUserGetSelection ==
    /\ gs.pc = "counted"
    /\ LET pageSize == NormPageSize(gs.pageSize)
           page == NormPage(gs.page)
           offset == Offset(page, pageSize)
           rows == getLimitClauseForDriver(Filtered(gs.search), pageSize, offset)
       IN  gs' = [gs EXCEPT !.pc = "returned",
                            !.totalPages = TotalPages(gs.totalItems, pageSize).pages,
                            !.list = [p \in DOMAIN rows |->
                                        [ID |-> rows[p].id, Username |-> rows[p].username,
                                         Description |-> rows[p].description,
                                         Password |-> ""]],
                            !.err = NilErr]
    /\ UNCHANGED <<ftp_account, ftp_mapping, nextId, dbDriverName, handle, call, last, sel,
                   conn, fq, metrics>>

\* the decimal digits of a number
RECURSIVE Digits(_)
Digits(n) ==
    IF n < 10 THEN <<CHOOSE d \in {"0", "1", "2", "3", "4", "5", "6", "7", "8", "9"} :
                        d = ToString(n)>>
    ELSE Digits(n \div 10) \o Digits(n % 10)

Account(id, username, description) ==
    [id |-> id, username |-> username, description |-> description, password |-> <<"p">>]

\* the account tables, searches, pages and page sizes the selection is run on
SelTables ==
    {{},
     {Account(1, <<"a", "1">>, <<"x">>), Account(2, <<"b">>, <<"a", "_", "b">>),
      Account(4, <<"a", "b">>, <<"1", "%">>), Account(5, <<"c">>, <<>>)},
     {Account(i, Digits(i), <<>>) : i \in 1..300}}
SelSearches == {<<>>, <<"1">>, <<"a">>, <<"a", "b">>, <<"_">>, <<"%">>, <<"z">>}
GsPages == {U32(0), U32(1), U32(2), U32(3), U32(16), <<32768, 1>>}
GsPageSizes == {U32(0), U32(1), U32(2), U32(9), <<65535, 65535>>}

InitSel ==
    /\ ftp_account \in SelTables
    /\ ftp_mapping = {}
    /\ nextId = 1
    /\ dbDriverName \in {MySQLDriverName, PostgreSQLDriverName}
    /\ handle = "live"
    /\ call = [c \in Callers |-> Idle]
    /\ last = NoCall
    /\ sel = NoSel
    /\ conn = NoConn
    /\ fq = NoFq
    /\ metrics = NoMetrics
    /\ gs \in [pc : {"call"}, page : GsPages, pageSize : GsPageSizes, search : SelSearches,
               totalItems : {U32(0)}, totalPages : {U32(0)}, list : {<<>>}, err : {NilErr}]

NextSel ==
    \/ FtpUserGetSelectionCount
    \/ FtpUserGetSelection

SpecSel == InitSel /\ [][NextSel]_vars

----------------------------------------------------------------------------
\* fmtQueryForDriver.  A query is a sequence of characters.

\* the longest of the queries enumerated character by character
MaxQueryLen == 4

\* the backtick and the double quote character
Backtick == "bt"
DoubleQuote == "dq"

\* strings.ReplaceAll(s, old, new) for a one-character old
RECURSIVE ReplaceAll(_, _, _)
ReplaceAll(s, old, new) ==
    IF s = <<>> THEN <<>>
    ELSE (IF Head(s) = old THEN new ELSE <<Head(s)>>) \o ReplaceAll(Tail(s), old, new)

\* faulty variant: every occurrence is replaced, as with n = -1
ReplaceEvery(s, old, new) == ReplaceAll(s, old, new)

\* strings.Replace(s, old, new, 1) for a one-character old: the first
\* occurrence only
RECURSIVE Replace(_, _, _)
Replace(s, old, new) ==
    IF s = <<>> THEN <<>>
    ELSE IF Head(s) = old THEN new \o Tail(s)
    ELSE <<Head(s)>> \o Replace(Tail(s), old, new)

\* for p := p; p < 11; p++ { result = strings.Replace(result, "?", "$p", 1) }
RECURSIVE ReplacePlaceholders(_, _)
ReplacePlaceholders(result, p) ==
    IF p < 11 THEN ReplacePlaceholders(Replace(result, "?", <<"$">> \o Digits(p)), p + 1)
    ELSE result

fmtQueryForDriver(query) ==
    IF dbDriverName = PostgreSQLDriverName
    THEN ReplacePlaceholders(ReplaceAll(query, Backtick, <<DoubleQuote>>), 1)
    ELSE query

\* one call of fmtQueryForDriver
FormatQuery ==
    /\ fq.pc = "call"
    /\ fq' = [fq EXCEPT !.pc = "returned", !.result = fmtQueryForDriver(fq.query)]
    /\ UNCHANGED <<ftp_account, ftp_mapping, nextId, dbDriverName, handle, call, last, sel,
                   conn, gs, metrics>>

RECURSIVE Strings(_, _)
Strings(alphabet, n) ==
    IF n = 0 THEN {<<>>}
    ELSE LET S == Strings(alphabet, n - 1)
         IN  S \cup {Append(s, c) : s \in S, c \in alphabet}

\* the queries formatted: every text of up to MaxQueryLen characters, runs of
\* placeholders up to one more than the loop replaces, and the UPDATE of
\* MappingCreate
FqQueries ==
    Strings({Backtick, "?", "a", "$"}, MaxQueryLen)
    \cup {[i \in 1..n |-> "?"] : n \in 5..11}
    \cup {[i \in 1..(2 * n) |-> IF i % 2 = 1 THEN Backtick ELSE "?"] : n \in 3..10}
    \cup {<<"u", " ", Backtick, "f", Backtick, "=", "?", " ", "w", " ", Backtick, "s", Backtick, "=", "?",
            " ", "&", " ", Backtick, "i", Backtick, "=", "?">>}

InitFq ==
    /\ ftp_account = {}
    /\ ftp_mapping = {}
    /\ nextId = 1
    /\ dbDriverName \in {MySQLDriverName, PostgreSQLDriverName}
    /\ handle = "live"
    /\ call = [c \in Callers |-> Idle]
    /\ last = NoCall
    /\ sel = NoSel
    /\ conn = NoConn
    /\ gs = NoGs
    /\ metrics = NoMetrics
    /\ fq \in [pc : {"call"}, query : FqQueries, result : {<<>>}]

NextFq == FormatQuery

SpecFq == InitFq /\ [][NextFq]_vars

----------------------------------------------------------------------------
\* The handlers of handlers/ftpusers.go, each a request answered by one caller

\* The requests for one account: the API key matches or not, the id of the
\* path ("abc": not a number), the body is JSON for an FtpUser or not, and the
\* fields it carries
UserRequests ==
    {[authenticated |-> FALSE, id |-> "1", body |-> "json", user |-> NoUser],
     [authenticated |-> TRUE, id |-> "abc", body |-> "json", user |-> NoUser],
     [authenticated |-> TRUE, id |-> "0", body |-> "json", user |-> NoUser],
     [authenticated |-> TRUE, id |-> "1", body |-> "garbage", user |-> NoUser],
     [authenticated |-> TRUE, id |-> "1", body |-> "json",
      user |-> [ID |-> 0, Username |-> "Test", Description |-> "", Password |-> "pass"]],
     [authenticated |-> TRUE, id |-> "1", body |-> "json",
      user |-> [ID |-> 0, Username |-> "Test", Description |-> "A test user", Password |-> ""]]}
    \cup [authenticated : {TRUE}, id : {ToString(i) : i \in FtpIds}, body : {"json"},
          user : NewUsers]

\* strconv.ParseInt of the id of the path: 0 stands for the error
ParseInt(text) ==
    IF \E i \in 0..MaxId : ToString(i) = text
    THEN [id |-> CHOOSE i \in 0..MaxId : ToString(i) = text, ok |-> TRUE]
    ELSE [id |-> 0, ok |-> FALSE]

\* handlers Post up to its call of FtpUserCreate
Post(c) ==
    /\ call[c].pc = "idle"
    /\ \E req \in UserRequests :
           IF ~req.authenticated THEN Respond(c, "Post", StatusUnauthorized)
           ELSE IF req.body # "json" THEN Respond(c, "Post", StatusInternalServerError)
           ELSE IF req.user.Username = "" \/ req.user.Description = "" \/ req.user.Password = ""
                THEN Respond(c, "Post", StatusBadRequest)
           ELSE UcInsert(c, req.user, TRUE)

\* handlers IDPut
IDPut(c) ==
    /\ call[c].pc = "idle"
    /\ \E req \in UserRequests :
           IF ~req.authenticated THEN Respond(c, "IDPut", StatusUnauthorized)
           ELSE IF ~ParseInt(req.id).ok \/ ParseInt(req.id).id < 1
                THEN Respond(c, "IDPut", StatusBadRequest)
           ELSE IF req.body # "json" THEN Respond(c, "IDPut", StatusInternalServerError)
           ELSE IF req.user.Username = "" \/ req.user.Description = ""
                THEN Respond(c, "IDPut", StatusBadRequest)
           ELSE FtpUserUpdateCall(c, [req.user EXCEPT !.ID = ParseInt(req.id).id], "IDPut")

\* what IDGet writes for the result of FtpUserGet
GetCode(err) ==
    IF err = NilErr THEN StatusOK
    ELSE IF err = ErrUserNotFound THEN StatusNotFound
    ELSE StatusInternalServerError

\* handlers IDGet
IDGet(c) ==
    /\ call[c].pc = "idle"
    /\ \E req \in UserRequests :
           IF ~req.authenticated THEN Respond(c, "IDGet", StatusUnauthorized)
           ELSE IF ~ParseInt(req.id).ok \/ ParseInt(req.id).id < 1
                THEN Respond(c, "IDGet", StatusBadRequest)
           ELSE \E h \in checkDBConnection :
                LET id == ParseInt(req.id).id
                    res == FtpUserGet(h, id)
                IN  /\ handle' = h
                    /\ UNCHANGED <<ftp_account, ftp_mapping, nextId, dbDriverName, sel, aux>>
                    /\ Step(c, Idle,
                            [NoCall EXCEPT !.op = "FtpUserGet", !.ftp = id, !.err = res.err,
                                 !.out = res.out, !.hadAcct = id \in AccountIds,
                                 !.handler = "IDGet", !.code = GetCode(res.err),
                                 !.body = IF res.err = NilErr THEN Marshal(res.out)
                                          ELSE apiError("IDGet", GetCode(res.err), res.err)])

\* The requests GET /ftpusers receives: the API key, whether page and
\* page_size parse as numbers, and their values (no search text)
GetRequests ==
    {[authenticated |-> FALSE, parses |-> TRUE, page |-> U32(0), pageSize |-> U32(0)],
     [authenticated |-> TRUE, parses |-> FALSE, page |-> U32(0), pageSize |-> U32(0)]}
    \cup [authenticated : {TRUE}, parses : {TRUE}, page : {U32(0), U32(2)},
          pageSize : {U32(0), U32(1)}]

\* handlers Get up to its call of FtpUserGetSelection
Get(c) ==
    /\ call[c].pc = "idle"
    /\ gs = NoGs
    /\ \E req \in GetRequests :
           IF ~req.authenticated THEN Respond(c, "Get", StatusUnauthorized)
           ELSE IF ~req.parses THEN Respond(c, "Get", StatusInternalServerError)
           ELSE /\ gs' = [pc |-> "call", page |-> req.page, pageSize |-> req.pageSize,
                          search |-> <<>>, totalItems |-> U32(0), totalPages |-> U32(0),
                          list |-> <<>>, err |-> NilErr]
                /\ Step(c, [Idle EXCEPT !.pc = "get"], NoCall)
                /\ UNCHANGED <<ftp_account, ftp_mapping, nextId, dbDriverName, handle, sel,
                               conn, fq, metrics>>

\* json.Marshal of an FtpUsers: every field is omitempty
MarshalFtpUsers(list, totalItems, totalPages) ==
    [k \in {f \in {"ftpusers", "total_items", "total_pages"} :
               \/ f = "ftpusers" /\ list # <<>>
               \/ f = "total_items" /\ totalItems # U32(0)
               \/ f = "total_pages" /\ totalPages # U32(0)} |->
        CASE k = "ftpusers" -> [p \in DOMAIN list |-> Marshal(list[p])]
          [] k = "total_items" -> totalItems
          [] OTHER -> totalPages]

\* handlers Get after FtpUserGetSelection returned: the response
GetRespond(c) ==
    /\ call[c].pc = "get"
    /\ gs.pc = "returned"
    /\ gs' = NoGs
    /\ Step(c, Idle,
            [NoCall EXCEPT !.op = "FtpUserGetSelection", !.err = gs.err,
                 !.handler = "Get", !.code = StatusOK,
                 !.body = MarshalFtpUsers(gs.list, gs.totalItems, gs.totalPages)])
    /\ UNCHANGED <<ftp_account, ftp_mapping, nextId, dbDriverName, handle, sel, conn, fq,
                   metrics>>

\* the systems that have mappings: BillSys1 and one more
AllSystems == Systems \cup {"CRM"}

\* The requests for a mapping or a system: the API key and the path
MappingRequests ==
    {[authenticated |-> FALSE, system |-> "BillSys1", sysid |-> "123"]}
    \cup [authenticated : {TRUE}, system : AllSystems \cup {""}, sysid : SystemIDs]

\* handlers SystemIDDelete
SystemIDDelete(c) ==
    /\ call[c].pc = "idle"
    /\ \E req \in MappingRequests :
           IF ~req.authenticated THEN Respond(c, "SystemIDDelete", StatusUnauthorized)
           ELSE MappingDeleteCall(c, req.system, req.sysid, "SystemIDDelete")

\* handlers SystemIDGet
SystemIDGet(c) ==
    /\ call[c].pc = "idle"
    /\ \E req \in MappingRequests :
           IF ~req.authenticated THEN Respond(c, "SystemIDGet", StatusUnauthorized)
           ELSE MappingRetrieveCall(c, req.system, req.sysid, "SystemIDGet")

\* handlers systemGetWithVars
SystemGet(c) ==
    /\ call[c].pc = "idle"
    /\ \E req \in MappingRequests :
           IF ~req.authenticated
           THEN RespondFor(c, "SystemGet", StatusUnauthorized, req.system)
           ELSE IF req.system = ""
                THEN RespondFor(c, "SystemGet", StatusBadRequest, req.system)
           ELSE SystemIDUserRetrieveCall(c, req.system, "SystemGet")

\* The service with one request at a time.  The tables it starts from are
\* empty, or hold what earlier requests left: an account mapped under another
\* system than BillSys1.
SeqTables ==
    {[account |-> {}, mapping |-> {}, nextId |-> 1],
     [account |-> {[id |-> 1, username |-> "Test", description |-> "A test user",
                    password |-> "pass"]},
      mapping |-> {[system |-> "CRM", id |-> "123", ftp_id |-> 1]}, nextId |-> 2]}

InitSeq ==
    /\ \E t \in SeqTables :
           /\ ftp_account = t.account
           /\ ftp_mapping = t.mapping
           /\ nextId = t.nextId
    /\ dbDriverName \in {MySQLDriverName, PostgreSQLDriverName}
    /\ handle = "live"
    /\ call = [c \in Callers |-> Idle]
    /\ last = NoCall
    /\ sel = NoSel
    /\ AuxIdle

Caller == "c1"

NextSeq ==
    \/ MappingCreate(Caller)
    \/ MappingCreateUpdate(Caller)
    \/ SystemPost(Caller)
    \/ SystemPostGet(Caller)
    \/ SystemIDDelete(Caller)
    \/ SystemIDGet(Caller)
    \/ SystemGet(Caller)
    \/ FtpUserLookup(Caller)
    \/ Get(Caller)
    \/ FtpUserGetSelectionCount
    \/ FtpUserGetSelection
    \/ GetRespond(Caller)
    \/ IDGet(Caller)
    \/ Post(Caller)
    \/ FtpUserCreateLookup(Caller)
    \/ IDPut(Caller)
    \/ FtpUserUpdatePassword(Caller)
    \/ FtpUserDelete(Caller)
    \/ ConnectionLost

SpecSeq == InitSeq /\ [][NextSeq]_vars

----------------------------------------------------------------------------
\* LoginHandler and metrics.IncLoginTotals

\* the number of login requests
MaxLogins == 2

\* The requests POST /login receives: the API key matches or not, the body is
\* JSON for Credentials or not, and the credentials it carries
LoginRequests ==
    {[authenticated |-> FALSE, body |-> "json", Username |-> "Test", Password |-> "pass"],
     [authenticated |-> TRUE, body |-> "garbage", Username |-> "", Password |-> ""]}
    \cup [authenticated : {TRUE}, body : {"json"}, Username : Usernames \cup {""},
          Password : {"pass", "wrong", ""}]

\* faulty variant: the password of the request is not compared
PasswordAlwaysMatches(stored, supplied) == TRUE

\* user.Password != creds.Password, negated
PasswordMatches(stored, supplied) == stored = supplied

\* json.Marshal of the sftpgo.User that LoginHandler returns
MarshalLogin(user) ==
    [id |-> user.ID, username |-> user.Username, description |-> user.Description,
     password |-> user.Password, status |-> 1]

\* LoginHandler up to its call of IncLoginTotals: the status label it has
\* chosen and the response it will write, for a lookup through handle h
LoginOutcome(req, h) ==
    LET ev == [NoCall EXCEPT !.handler = "LoginHandler",
                   !.authenticated = req.authenticated, !.parses = (req.body = "json"),
                   !.user = [NoUser EXCEPT !.Username = req.Username,
                                          !.Password = req.Password]]
        Refuse(e, label, code, err) ==
            [e EXCEPT !.label = label, !.code = code,
                      !.body = apiError("LoginHandler", code, err)]
        found == LookupEvent(h, req.Username)
        looked == [ev EXCEPT !.op = found.op, !.err = found.err, !.out = found.out,
                             !.dir = found.dir]
    IN  IF ~req.authenticated
        THEN Refuse(ev, LoginStatusAuthFailure, StatusUnauthorized, NilErr)
        ELSE IF req.body # "json"
        THEN Refuse(ev, LoginStatusServerError, StatusInternalServerError, NilErr)
        ELSE IF req.Username = "" \/ req.Password = ""
        THEN Refuse(ev, LoginStatusUserPassBlank, StatusUnauthorized, NilErr)
        ELSE IF found.err = ErrUserNotFound
        THEN Refuse(looked, LoginStatusUserNotFound, StatusUnauthorized, NilErr)
        ELSE IF found.err # NilErr
        THEN Refuse(looked, LoginStatusServerError, StatusInternalServerError, found.err)
        ELSE IF ~PasswordMatches(found.out.Password, req.Password)
        THEN Refuse(looked, LoginStatusBadPassword, StatusUnauthorized, NilErr)
        ELSE [looked EXCEPT !.label = LoginStatusSuccess, !.code = StatusOK,
                            !.body = MarshalLogin(found.out)]

\* LoginHandler up to its call of IncLoginTotals
LoginHandler(c) ==
    /\ call[c].pc = "idle"
    /\ ~metrics.fatal
    /\ metrics.started < MaxLogins
    /\ \E req \in LoginRequests, h \in checkDBConnection :
        LET ev == LoginOutcome(req, h)
        IN  /\ handle' = IF ev.op = "FtpUserLookup" THEN h ELSE handle
            /\ metrics' = [metrics EXCEPT !.pending[c] = ev, !.started = @ + 1]
            /\ Step(c, [Idle EXCEPT !.pc = "login_set"], NoCall)
            /\ UNCHANGED <<ftp_account, ftp_mapping, nextId, dbDriverName, sel, conn, fq, gs>>

\* IncLoginTotals: loginLabels["status"] = status.  The map is shared by the
\* goroutines of all requests and written without a lock: when another request
\* is between its own write and its read of the map, the runtime may stop the
\* process (concurrent map read and map write).
IncLoginTotals(c) ==
    /\ call[c].pc = "login_set"
    /\ ~metrics.fatal
    /\ \E stopped \in {FALSE} \cup {\E q \in Callers \ {c} : call[q].pc = "login_inc"} :
           metrics' = IF stopped THEN [metrics EXCEPT !.fatal = TRUE]
                      ELSE [metrics EXCEPT !.loginLabels = metrics.pending[c].label]
    /\ Step(c, [call[c] EXCEPT !.pc = "login_inc"], NoCall)
    /\ UNCHANGED <<ftp_account, ftp_mapping, nextId, dbDriverName, handle, sel, conn, fq, gs>>

\* IncLoginTotals: countLoginTotals.With(loginLabels).Inc() with the label the
\* map holds now, then the response of LoginHandler
LoginRespond(c) ==
    /\ call[c].pc = "login_inc"
    /\ ~metrics.fatal
    /\ metrics' = [metrics EXCEPT !.countLoginTotals[metrics.loginLabels] = @ + 1,
                                  !.served[metrics.pending[c].label] = @ + 1,
                                  !.pending[c] = NoCall]
    /\ Step(c, Idle, metrics.pending[c])
    /\ UNCHANGED <<ftp_account, ftp_mapping, nextId, dbDriverName, handle, sel, conn, fq, gs>>

\* the tables the logins run on: no account, an account mapped under another
\* system only, an account mapped under BillSys1, and two accounts of which
\* one is mapped twice
LoginTables ==
    LET test == [id |-> 1, username |-> "Test", description |-> "A test user",
                 password |-> "pass"]
        test2 == [id |-> 2, username |-> "Test2", description |-> "Another",
                  password |-> "pass2"]
    IN  {[account |-> {}, mapping |-> {}, nextId |-> 1],
         [account |-> {test}, nextId |-> 2,
          mapping |-> {[system |-> "CRM", id |-> "123", ftp_id |-> 1]}],
         [account |-> {test}, nextId |-> 2,
          mapping |-> {[system |-> "BillSys1", id |-> "123", ftp_id |-> 1]}],
         [account |-> {test, test2}, nextId |-> 3,
          mapping |-> {[system |-> "BillSys1", id |-> "123", ftp_id |-> 1],
                       [system |-> "BillSys1", id |-> "124", ftp_id |-> 1],
                       [system |-> "CRM", id |-> "123", ftp_id |-> 2]}]}

InitLogin ==
    /\ \E t \in LoginTables :
           /\ ftp_account = t.account
           /\ ftp_mapping = t.mapping
           /\ nextId = t.nextId
    /\ dbDriverName \in {MySQLDriverName, PostgreSQLDriverName}
    /\ handle = "live"
    /\ call = [c \in Callers |-> Idle]
    /\ last = NoCall
    /\ sel = NoSel
    /\ AuxIdle

NextLogin ==
    \/ \E c \in Callers : LoginHandler(c)
    \/ \E c \in Callers : IncLoginTotals(c)
    \/ \E c \in Callers : LoginRespond(c)
    \/ ConnectionLost

SpecLogin == InitLogin /\ [][NextLogin]_vars

----------------------------------------------------------------------------
\* The account list requested while other requests create and delete accounts

InitSnap ==
    /\ ftp_account = {}
    /\ ftp_mapping = {}
    /\ nextId = 1
    /\ dbDriverName \in {MySQLDriverName, PostgreSQLDriverName}
    /\ handle = "live"
    /\ call = [c \in Callers |-> Idle]
    /\ last = NoCall
    /\ sel = NoSel
    /\ AuxIdle

NextSnap ==
    \/ \E c \in Callers : Get(c)
    \/ FtpUserGetSelectionCount
    \/ FtpUserGetSelection
    \/ \E c \in Callers : GetRespond(c)
    \/ \E c \in Callers : FtpUserCreate(c)
    \/ \E c \in Callers : FtpUserCreateLookup(c)
    \/ \E c \in Callers : FtpUserDelete(c)

SpecSnap == InitSnap /\ [][NextSnap]_vars


----------------------------------------------------------------------------
Init ==
    /\ ftp_account = {}
    /\ ftp_mapping = {}
    /\ nextId = 1
    /\ dbDriverName \in {MySQLDriverName, PostgreSQLDriverName}
    /\ handle = "live"
    /\ call = [c \in Callers |-> Idle]
    /\ last = NoCall
    /\ sel = NoSel
    /\ AuxIdle

Next ==
    \/ \E c \in Callers : MappingCreate(c)
    \/ \E c \in Callers : MappingCreateUpdate(c)
    \/ \E c \in Callers : SystemPost(c)
    \/ \E c \in Callers : SystemPostGet(c)
    \/ \E c \in Callers : MappingDelete(c)
    \/ \E c \in Callers : MappingRetrieve(c)
    \/ \E c \in Callers : SystemIDUserRetrieve(c)
    \/ \E c \in Callers : FtpUserCreate(c)
    \/ \E c \in Callers : FtpUserCreateLookup(c)
    \/ \E c \in Callers : FtpUserUpdate(c)
    \/ \E c \in Callers : FtpUserDelete(c)
    \/ ConnectionLost

Spec == Init /\ [][Next]_vars

----------------------------------------------------------------------------
\* Properties

MappingCreateReturned == last.op = "MappingCreate"

\* no statement of the call failed in the driver or on the connection
NoDriverFailure(log) == \A i \in 1..Len(log) : log[i].err # BadConnection

\* the eight bytes of a uint32 taken as an unbounded number
Wide(a) == Bytes(a) \o <<0, 0, 0, 0>>

\* A < B for numbers given as eight bytes, least significant first
WideLt(A, B) ==
    \E k \in 1..8 : A[k] < B[k] /\ \A j \in (k + 1)..8 : A[j] = B[j]

\* C1: MappingCreate issues the INSERT first and the UPDATE only after the
\* INSERT failed with the unique-key signature: an INSERT that succeeds gives
\* MappingInserted and no UPDATE, an INSERT that fails with any other error
\* gives MappingError with that error and no UPDATE.
C1_InsertFirstUpdateOnlyAfterKeyError ==
    /\ \A c \in Callers : call[c].pc = "mc_update" =>
           /\ Len(call[c].log) = 1
           /\ call[c].log[1] = Stmt("insert", UniqueViolation)
    /\ MappingCreateReturned =>
           /\ Len(last.log) \in {1, 2}
           /\ last.log[1].q = "insert"
           /\ Len(last.log) = 2 =>
                  last.log[2].q = "update" /\ last.log[1].err = UniqueViolation
           /\ last.log[1].err = NilErr =>
                  Len(last.log) = 1 /\ last.status = MappingInserted /\ last.err = NilErr
           /\ last.log[1].err \notin {NilErr, UniqueViolation} =>
                  /\ Len(last.log) = 1
                  /\ last.status = MappingError
                  /\ last.err = last.log[1].err

\* C1 witness: an INSERT refused for its foreign key ended the call
C1_Witness ==
    /\ MappingCreateReturned
    /\ last.log = <<Stmt("insert", ForeignKeyViolation)>>
    /\ last.status = MappingError

\* C2: after an INSERT refused for its key, an UPDATE refused for its foreign
\* key gives (MappingFTPAccountNotFound, nil), an UPDATE that fails otherwise
\* gives (MappingError, that error), an UPDATE that succeeds gives
\* (MappingUpdated, nil).
C2_UpdateOutcomes ==
    (MappingCreateReturned /\ Len(last.log) = 2) =>
        LET e == last.log[2].err
        IN  /\ e = ForeignKeyViolation =>
                   last.status = MappingFTPAccountNotFound /\ last.err = NilErr
            /\ e \notin {NilErr, ForeignKeyViolation} =>
                   last.status = MappingError /\ last.err = e
            /\ e = NilErr => last.status = MappingUpdated /\ last.err = NilErr

\* C2 witness: the UPDATE was refused for its foreign key
C2_Witness ==
    /\ MappingCreateReturned
    /\ Len(last.log) = 2
    /\ last.log[2].err = ForeignKeyViolation
    /\ last.status = MappingFTPAccountNotFound

\* C3: with no other caller in between and no driver failure, MappingCreate on
\* a key without mapping and an existing account returns MappingInserted and
\* stores the mapping; on a key with a mapping and an existing account it
\* returns MappingUpdated and the key is then mapped to that account; on a
\* key with a mapping and an account that does not exist it returns
\* (MappingFTPAccountNotFound, nil) and the stored account stays.
C3_SequentialUpsert ==
    (MappingCreateReturned /\ last.solo /\ NoDriverFailure(last.log)) =>
        /\ (last.keyFtp = 0 /\ last.hadAcct) =>
               /\ last.status = MappingInserted /\ last.err = NilErr
               /\ MappingByKey(last.system, last.sysid) =
                      {[system |-> last.system, id |-> last.sysid, ftp_id |-> last.ftp]}
        /\ (last.keyFtp # 0 /\ last.hadAcct) =>
               /\ last.status = MappingUpdated /\ last.err = NilErr
               /\ MappingByKey(last.system, last.sysid) =
                      {[system |-> last.system, id |-> last.sysid, ftp_id |-> last.ftp]}
        /\ (last.keyFtp # 0 /\ ~last.hadAcct) =>
               /\ last.status = MappingFTPAccountNotFound /\ last.err = NilErr
               /\ MappingByKey(last.system, last.sysid) =
                      {[system |-> last.system, id |-> last.sysid, ftp_id |-> last.keyFtp]}

\* C3 witness: a mapped key was moved to another existing account
C3_Witness ==
    /\ MappingCreateReturned /\ last.solo
    /\ last.status = MappingUpdated
    /\ last.keyFtp # 0 /\ last.keyFtp # last.ftp
    /\ KeyFtp(last.system, last.sysid) = last.ftp

\* C4: the mapping table holds at most one row per (system, external id)
C4_OneRowPerKey ==
    \A m1 \in ftp_mapping, m2 \in ftp_mapping :
        (m1.system = m2.system /\ m1.id = m2.id) => m1 = m2

\* C4 witness: MappingCreate ran on a key that was mapped to another account
C4_Witness ==
    /\ MappingCreateReturned
    /\ last.keyFtp # 0 /\ last.keyFtp # last.ftp /\ last.hadAcct
    /\ Cardinality(MappingByKey(last.system, last.sysid)) = 1

\* C5: every mapping row references an existing account; after a successful
\* FtpUserDelete(id) no mapping with ftp_id = id remains, the keys that
\* pointed at id are not found by the MappingRetrieve query and no system
\* directory lists them; a mapping MappingRetrieve returns names an account
\* that exists.
C5_MappingsReferenceAccounts ==
    /\ \A m \in ftp_mapping : m.ftp_id \in AccountIds
    /\ (last.op = "FtpUserDelete" /\ last.err = NilErr) =>
           /\ last.id \notin AccountIds
           /\ KeysOf(last.id) = {}
           /\ \A k \in last.dir :
                  /\ ExecSelectMapping("live", k[1], k[2]).rows = {}
                  /\ \A row \in ExecSelectSystem("live", k[1]).rows : row[1] # k[2]
    /\ (last.op = "MappingRetrieve" /\ last.err = NilErr) =>
           last.out.ID \in AccountIds /\ last.out.ID = last.keyFtp

\* C5 witness: an account that had a mapping was deleted
C5_Witness ==
    last.op = "FtpUserDelete" /\ last.err = NilErr /\ last.dir # {}

WellFormedPostAnswered ==
    /\ last.handler = "SystemPost"
    /\ last.op \in {"MappingCreate", "FtpUserGet"}
    /\ last.code # 0

\* C6: POST /mappings/{system} with a well-formed body whose ftp_id references
\* no existing account is answered 404, whether or not the key has a mapping;
\* a created mapping is answered 201 and an updated one 200.
C6_PostUnknownAccountIs404 ==
    (WellFormedPostAnswered /\ last.solo /\ NoDriverFailure(last.log)) =>
        /\ ~last.hadAcct => last.code = StatusNotFound
        /\ (last.op = "MappingCreate" /\ last.status = MappingUpdated) =>
               last.code = StatusOK
        /\ (last.op = "FtpUserGet" /\ last.err = NilErr) => last.code = StatusCreated

\* the step is the INSERT of an FtpUserCreate call for user u
FtpUserCreateInsertStep(u) ==
    \/ last'.op = "FtpUserCreate" /\ Len(last'.log) = 1 /\ last'.user = u
    \/ \E c \in Callers :
           call[c].pc = "idle" /\ call'[c].pc = "uc_lookup" /\ call'[c].user = u

\* C7: FtpUserCreate with a username that belongs to an account returns
\* ErrFTPAccountExists with id 0, issues no id lookup and leaves the account
\* table as it was.
C7_DuplicateUsernameRefused ==
    [][\A u \in NewUsers :
          (/\ FtpUserCreateInsertStep(u)
           /\ AccountByName(u.Username) # {}
           /\ handle' = "live") =>
              /\ last'.op = "FtpUserCreate"
              /\ last'.err = ErrFTPAccountExists
              /\ last'.id = 0
              /\ last'.log = <<Stmt("insert", UniqueViolation)>>
              /\ \A c \in Callers : call[c].pc = "idle" => call'[c].pc = "idle"
              /\ ftp_account' = ftp_account]_vars

\* C7 witness: a create was refused for a username that is taken
C7_Witness ==
    /\ last.op = "FtpUserCreate"
    /\ last.err = ErrFTPAccountExists
    /\ AccountByName(last.user.Username) # {}

\* C8: when FtpUserCreate returns a nil error the identifier it returns is
\* the identifier of the row this call inserted
C8_ReturnsInsertedId ==
    (last.op = "FtpUserCreate" /\ last.err = NilErr) => last.id = last.insId

\* C9: the normalized page is max(page, 1), the normalized page size is
\* pageSize, or 30 for 0, and the offset is the product of (normalized
\* page - 1) and the normalized page size, not reduced modulo 2^32.
C9_OffsetIsProduct ==
    sel.pc = "paged" =>
        LET page == IF U32Lt(sel.page, U32(1)) THEN U32(1) ELSE sel.page
            pageSize == IF U32Lt(U32(0), sel.pageSize) THEN sel.pageSize ELSE U32(30)
        IN  /\ sel.normPage = page
            /\ sel.normPageSize = pageSize
            /\ Wide(sel.offset) = Product(U32Sub(page, U32(1)), pageSize)

\* C10: TotalPages is the least number of pages of the normalized size that
\* hold TotalItems rows (the ceiling of the quotient); it is 0 exactly when
\* TotalItems is 0, and the divisor is never 0.
C10_TotalPagesIsCeiling ==
    sel.pc \in {"paged", "panic"} =>
        LET pageSize == IF sel.pageSize = U32(0) THEN U32(30) ELSE sel.pageSize
            n == Wide(sel.totalItems)
            q == sel.totalPages
        IN  /\ ~sel.panic
            /\ sel.normPageSize = pageSize /\ sel.normPageSize # U32(0)
            /\ ~WideLt(Product(q, pageSize), n)
            /\ q # U32(0) => WideLt(Product(U32Sub(q, U32(1)), pageSize), n)
            /\ q = U32(0) <=> sel.totalItems = U32(0)

\* C10 witness: 31 rows at the default page size make 2 pages
C10_Witness ==
    /\ sel.pc = "paged"
    /\ sel.pageSize = U32(0) /\ sel.totalItems = U32(31)
    /\ sel.totalPages = U32(2)

\* the events e of a connection log
Events(log, E) == {i \in 1..Len(log) : log[i] \in E}

InAttemptConnection == conn.pc \in {"open", "sleep", "after"}

\* C12: attemptConnection terminates; it opens a handle at most 10 times,
\* sleeps the fixed 5 seconds and only directly after a failed open, and opens
\* nothing after an open that succeeded.
C12_AttemptConnectionBounded ==
    /\ [](/\ Cardinality(Events(conn.log, {"open:ok", "open:err"})) <= connectionRetryAttempts
          /\ conn.slept = retrySleepSeconds * Cardinality(Events(conn.log, {"sleep"}))
          /\ \A i \in Events(conn.log, {"sleep"}) : i > 1 /\ conn.log[i - 1] = "open:err"
          /\ \A i \in Events(conn.log, {"open:ok"}) :
                 \A j \in (i + 1)..Len(conn.log) :
                     conn.log[j] \notin {"open:ok", "open:err", "sleep"})
    /\ (InAttemptConnection ~> ~InAttemptConnection)

\* C12 witness: a run of attemptConnection slept after failures, then opened
\* a handle and returned
C12_Witness ==
    /\ ~InAttemptConnection
    /\ Cardinality(Events(conn.log, {"sleep"})) = 3
    /\ Cardinality(Events(conn.log, {"open:ok"})) = 1

AllAttemptsFailed ==
    Cardinality(Events(conn.log, {"open:err"})) = connectionRetryAttempts

\* C13: when all 10 attempts to open a handle fail, attemptConnection returns
\* the error of the last attempt and NewDB returns that error and no Database.
C13_AllAttemptsFailedIsError ==
    (conn.op = "NewDB" /\ ~InAttemptConnection /\ AllAttemptsFailed) =>
        conn.ret = OpenError /\ conn.pc = "failed"

\* C14: every operation pings before it issues a statement; when the ping
\* fails and no attempt to open a new handle succeeds, the operation returns
\* that failure and issues no statement.
C14_LivenessCheckBeforeStatement ==
    (conn.op \in Operations /\ conn.log # <<>>) =>
        /\ conn.log[1] \in {"ping:ok", "ping:err", "ping:panic"}
        /\ (conn.pc = "ready" /\ conn.log[1] = "ping:err"
               /\ Events(conn.log, {"open:ok"}) = {}) =>
               /\ conn.ret = OpenError
               /\ Events(conn.log, {"stmt"}) = {}

\* t occurs in s
HasSubstring(s, t) ==
    \E i \in 0..(Len(s) - Len(t)) : SubSeq(s, i + 1, i + Len(t)) = t

\* the accounts whose username or description contains the search term
Matching(search) ==
    {a \in ftp_account : HasSubstring(a.username, search) \/ HasSubstring(a.description, search)}

\* C11: FtpUserGetSelection returns TotalItems = the number of accounts whose
\* username or description contains the search term, and the list of the
\* accounts at positions offset+1 .. offset+pageSize of those in ascending id
\* order, offset being (page - 1) x pageSize on the normalized values; a page
\* past the last match gives an empty list and a nil error.
C11_SelectionIsTheWindow ==
    gs.pc = "returned" =>
        LET S == Matching(gs.search)
            n == Cardinality(S)
            pageSize == NormPageSize(gs.pageSize)
            offset == Product(U32Sub(NormPage(gs.page), U32(1)), pageSize)
            skip == IF WideLt(offset, Wide(U32(n))) THEN offset[1] + 256 * offset[2] ELSE n
            rows == OrderById(S, skip, Clip(pageSize, n))
        IN  /\ gs.err = NilErr
            /\ gs.totalItems = U32(n)
            /\ Len(gs.list) = Len(rows)
            /\ \A p \in 1..Len(rows) : gs.list[p].ID = rows[p].id

\* the query with every backtick turned into a double quote and the i-th
\* placeholder from the left, counted from i, turned into $i
RECURSIVE Numbered(_, _)
Numbered(q, i) ==
    IF q = <<>> THEN <<>>
    ELSE IF Head(q) = Backtick THEN <<DoubleQuote>> \o Numbered(Tail(q), i)
    ELSE IF Head(q) = "?" THEN <<"$">> \o Digits(i) \o Numbered(Tail(q), i + 1)
    ELSE <<Head(q)>> \o Numbered(Tail(q), i)

\* C15: for a query with at most 10 placeholders fmtQueryForDriver under
\* postgres returns the query with every backtick replaced by a double quote
\* and the i-th '?' from the left replaced by $i, leaving no '?' and no
\* backtick; under mysql it returns the query unchanged.
C15_PlaceholdersNumbered ==
    (fq.pc = "returned" /\ Cardinality(Events(fq.query, {"?"})) <= 10) =>
        /\ dbDriverName = PostgreSQLDriverName =>
               /\ fq.result = Numbered(fq.query, 1)
               /\ Events(fq.result, {"?", Backtick}) = {}
        /\ dbDriverName = MySQLDriverName => fq.result = fq.query

\* C15 witness: ten placeholders between backticks were numbered up to $10
C15_Witness ==
    /\ fq.pc = "returned"
    /\ dbDriverName = PostgreSQLDriverName
    /\ Cardinality(Events(fq.query, {"?"})) = 10
    /\ Cardinality(Events(fq.query, {Backtick})) = 10
    /\ SubSeq(fq.result, Len(fq.result) - 2, Len(fq.result)) = <<"$", "1", "0">>

----------------------------------------------------------------------------
\* a response body without a password member, at the top, in its account and
\* in the accounts of its list
NoPasswordMember(body) ==
    /\ "password" \notin DOMAIN body
    /\ "ftp_account" \in DOMAIN body => "password" \notin DOMAIN body.ftp_account
    /\ "ftpusers" \in DOMAIN body =>
           \A p \in DOMAIN body.ftpusers : "password" \notin DOMAIN body.ftpusers[p]

\* the handlers of GET, POST and PUT /ftpusers and of GET and POST /mappings
DisplayHandlers == {"Get", "IDGet", "Post", "IDPut", "SystemIDGet", "SystemGet", "SystemPost"}

\* C16: the users FtpUserGet, FtpUserGetSelection and MappingRetrieve return
\* have an empty Password, and no body written by the handlers of GET, POST and
\* PUT /ftpusers and of GET and POST /mappings has a password member.
C16_NoPasswordOnDisplay ==
    /\ last.op \in {"FtpUserGet", "MappingRetrieve"} => last.out.Password = ""
    /\ gs.pc = "returned" => \A p \in DOMAIN gs.list : gs.list[p].Password = ""
    /\ last.handler \in DisplayHandlers => NoPasswordMember(last.body)

\* IDGet answered 200 with an account whose stored password is not empty
C16_Witness ==
    /\ last.handler = "IDGet"
    /\ last.code = StatusOK
    /\ last.body.id = last.out.ID
    /\ \E a \in ftp_account : a.id = last.out.ID /\ a.password # ""

\* C17: FtpUserLookup returns ErrUserNotFound exactly when no account has the
\* username, and otherwise the id, username, description and password of the
\* account that has it (a driver error aside).
C17_LookupByUsername ==
    last.op = "FtpUserLookup" /\ last.err \in {NilErr, ErrUserNotFound} =>
        /\ last.err = ErrUserNotFound <=> AccountByName(last.user.Username) = {}
        /\ last.err = NilErr =>
               \E a \in AccountByName(last.user.Username) :
                   last.out = [ID |-> a.id, Username |-> a.username,
                               Description |-> a.description, Password |-> a.password]

\* C18: FtpUserUpdate, FtpUserUpdatePassword and FtpUserDelete return
\* ErrFTPAccountNotFound when no account has the identifier, leaving both
\* tables as they were, and in no other case (a driver error aside).
C18_NotFoundOnlyForMissingAccount ==
    [][last'.op \in {"FtpUserUpdate", "FtpUserUpdatePassword", "FtpUserDelete"}
       /\ last'.err \in {NilErr, ErrFTPAccountNotFound} =>
           /\ last'.err = ErrFTPAccountNotFound <=> ~last'.hadAcct
           /\ ~last'.hadAcct => UNCHANGED <<ftp_account, ftp_mapping>>]_vars

\* C19: MappingDelete returns, with nil error, the number of rows it removed:
\* 1 when the key was mapped, and the key is not mapped afterwards, 0 when it
\* was not; SystemIDDelete answers 204 for a count that is not zero and 404 for zero.
C19_MappingDeleteCountsRows ==
    [][last'.op = "MappingDelete" /\ last'.err = NilErr =>
           /\ ftp_mapping' \subseteq ftp_mapping
           /\ last'.rows = Cardinality(ftp_mapping \ ftp_mapping')
           /\ last'.rows = IF MappingByKey(last'.system, last'.sysid) # {} THEN 1 ELSE 0
           /\ \A m \in ftp_mapping' : ~(m.system = last'.system /\ m.id = last'.sysid)
           /\ last'.handler = "SystemIDDelete" =>
                  last'.code = IF last'.rows # 0 THEN StatusNoContent ELSE StatusNotFound]_vars

\* SystemIDDelete removed the mapping of a key and answered 204 while the
\* same id stays mapped under another system
C19_Witness ==
    /\ last.op = "MappingDelete"
    /\ last.handler = "SystemIDDelete"
    /\ last.rows = 1
    /\ last.code = StatusNoContent
    /\ MappingByKey(last.system, last.sysid) = {}
    /\ \E m \in ftp_mapping : m.id = last.sysid

\* the map from external id to the username of the owning account over the
\* mappings of the system, as its set of entries
DirectoryOf(system) ==
    {<<m.id, a.username>> : <<m, a>> \in
        {x \in ftp_mapping \X ftp_account : x[1].system = system /\ x[1].ftp_id = x[2].id}}

ConnReturned == conn.op # "" /\ conn.pc \in {"ready", "failed", "crashed"}

\* the outcome of the last sql.Open of the call, "" when it opened nothing
LastOpen ==
    LET E == Events(conn.log, {"open:ok", "open:err"})
    IN  IF E = {} THEN "" ELSE conn.log[CHOOSE i \in E : \A j \in E : j <= i]

\* C21: an error of a connection open that is not followed by an open that
\* succeeds is returned by the call in progress: never a nil error, never a
\* value in its place.
C21_OpenErrorReturned ==
    (ConnReturned /\ LastOpen = "open:err") => conn.ret = OpenError

\* the scheme of the data source is neither mysql nor postgres, or there is no "://"
Unsupported(segs) ==
    Len(segs) < 2 \/ segs[1] \notin {MySQLDriverName, PostgreSQLDriverName}

\* C22: the driver name is the one of the first NewDB that succeeded, and a
\* NewDB whose data source has another scheme than mysql or postgres, or none,
\* returns an error and opens nothing, whatever NewDB calls came before it.
C22_DialectFixedAndOthersRefused ==
    /\ conn.opened # "" => dbDriverName = conn.opened
    /\ (conn.op = "NewDB" /\ Unsupported(conn.source)) =>
           /\ conn.pc = "failed"
           /\ conn.log = <<>>

\* the lookup of a login found the user
LoginFound == last.op = "FtpUserLookup" /\ last.err = NilErr

\* C23: LoginHandler answers 200 exactly when the API key matches, the body
\* parses, username and password are not empty, FtpUserLookup finds the user
\* and the stored password is the one supplied; a wrong key, a blank username
\* or password, an unknown username and a password mismatch give 401, any
\* other failure of the lookup gives 500.
C23_LoginAnswers ==
    last.handler = "LoginHandler" =>
        /\ last.code = StatusOK <=>
               /\ last.authenticated
               /\ last.parses
               /\ last.user.Username # "" /\ last.user.Password # ""
               /\ LoginFound
               /\ \E a \in ftp_account : /\ a.id = last.out.ID
                                         /\ a.password = last.user.Password
        /\ ~last.authenticated => last.code = StatusUnauthorized
        /\ (last.authenticated /\ last.parses
               /\ (last.user.Username = "" \/ last.user.Password = "")) =>
               last.code = StatusUnauthorized
        /\ last.op = "FtpUserLookup" =>
               /\ last.err = ErrUserNotFound => last.code = StatusUnauthorized
               /\ (LoginFound /\ last.out.Password # last.user.Password) =>
                      last.code = StatusUnauthorized
               /\ last.err \notin {NilErr, ErrUserNotFound} =>
                      last.code = StatusInternalServerError

\* a login with the password of another account was refused with 401
C23_Witness ==
    /\ last.handler = "LoginHandler"
    /\ LoginFound
    /\ last.code = StatusUnauthorized
    /\ last.label = LoginStatusBadPassword
    /\ \E a \in ftp_account : a.username = last.user.Username /\ a.password = "pass"
    /\ last.user.Password = "wrong"

\* C30: every LoginHandler invocation increments ftpusersvc_logins_total once,
\* under the label of its own outcome: when no login is in progress the
\* counter of each label is the number of logins answered with that outcome,
\* and the shared map never stops the process.
C30_LoginCountedUnderOwnLabel ==
    /\ ~metrics.fatal
    /\ (\A c \in Callers : call[c].pc = "idle") =>
           \A l \in LoginStatuses : metrics.countLoginTotals[l] = metrics.served[l]

\* the accounts with another id than id are the same before and after the step
OthersKept(id) ==
    {a \in ftp_account : a.id # id} = {a \in ftp_account' : a.id # id}

C25_StatusErrorIffError ==
    /\ last.op = "MappingCreate" =>
           /\ last.status = MappingError <=> last.err # NilErr
           /\ last.status \in {MappingError, MappingFTPAccountNotFound,
                                MappingInserted, MappingUpdated}
           /\ last.handler = "SystemPost" =>
                  IF last.status = MappingInserted
                  THEN last.code = 0 /\ \E c \in Callers : call[c].pc = "sp_get"
                  ELSE last.code \in {StatusInternalServerError, StatusNotFound, StatusOK}
    /\ (last.op = "FtpUserGet" /\ last.handler = "SystemPost") =>
           last.code \in {StatusInternalServerError, StatusCreated}

\* systemPostWithVars answered 404 for MappingFTPAccountNotFound
C25_Witness ==
    /\ last.op = "MappingCreate"
    /\ last.handler = "SystemPost"
    /\ last.status = MappingFTPAccountNotFound
    /\ last.err = NilErr
    /\ last.code = StatusNotFound

\* C26: when NewDB or attemptConnection returns a nil error the Database
\* holds a handle that sql.Open returned without error; the pool settings are
\* never applied to, and no operation pings or queries through, the handle of
\* a failed open (each of which panics on the nil handle).
C26_NilErrorMeansOpenHandle ==
    /\ (conn.op = "NewDB" /\ conn.pc = "ready") => conn.db = "open"
    /\ conn.pc = "stmt" => conn.db = "open"
    /\ conn.pooled => conn.db = "open"
    /\ conn.ret # Panic

\* C27: when MappingCreate returns MappingUpdated, the key is mapped to the
\* requested account at that moment, whatever other callers did between the
\* refused INSERT and the UPDATE.
C27_UpdatedMeansMapped ==
    (last.op = "MappingCreate" /\ last.status = MappingUpdated) =>
        \E m \in MappingByKey(last.system, last.sysid) : m.ftp_id = last.ftp

\* C28: a FtpUserCreate that returns an error has added no account row,
\* whatever other callers did between its INSERT and its select min(id).
C28_CreateErrorAddsNoRow ==
    (last.op = "FtpUserCreate" /\ last.err # NilErr) => last.insId = 0

\* n <= u for a length n and a uint32 u
AtMost(n, u) == u[1] > 0 \/ n <= u[2]

\* C29: the list and the totals of one FtpUserGetSelection describe one state
\* of ftp_account: the list has at most pageSize entries and at most
\* max(0, TotalItems - offset) entries, whatever other callers created or
\* deleted between the count query and the select query.
C29_ListWithinTotals ==
    gs.pc = "returned" =>
        LET pageSize == NormPageSize(gs.pageSize)
            offset == Offset(NormPage(gs.page), pageSize)
        IN  /\ AtMost(Len(gs.list), pageSize)
            /\ IF U32Lt(offset, gs.totalItems)
               THEN AtMost(Len(gs.list), U32Sub(gs.totalItems, offset))
               ELSE gs.list = <<>>
====
